---- MODULE Spec2Model ----
(***************************************************************************)
(* State-machine model of the TPU spawn training-type plugin:              *)
(*   pytorch_lightning/plugins/training_type/tpu_spawn.py                  *)
(* The parent process of every node creates a queue, spawns num_processes  *)
(* workers running new_process, and reads the queue in post_dispatch.      *)
(* A second specification (SpecReduce) models one collective call of       *)
(* reduce / reduce_decision over the processes of a run.                   *)
(***************************************************************************)
EXTENDS Integers, Sequences, FiniteSets, TLC

\* ------------------------------------------------------------------ bounds
\* Largest number of workers (num_nodes * num_processes) of a modelled run.
MaxWorkers == 2
\* Largest number of processes taking part in a modelled collective call.
MaxProcs == 3
\* Largest number of runs started one after the other on the same plugin.
MaxRuns == 2

\* Per-process values handed to reduce lie in -MaxVal .. MaxVal.
MaxVal == 1

\* ------------------------------------------------------------------ values
\* Python's None, and the "attribute not assigned yet" marker of rank fields.
None == "None"
Unset == 0 - 1

TrainerStates == {"FITTING", "TUNING", "TESTING"}
\* Values trainer.run_stage() may return in a worker.
Results == {"r1", "r2"}
\* Values checkpoint_callback.best_model_path may hold after the run stage.
BestPaths == {"", "best.ckpt"}
\* Outcomes of the native xm.save primitive: success, the RuntimeError whose
\* message holds "Failed to meet rendezvous", any other RuntimeError.
SaveOutcomes == {"ok", "rendezvous", "other"}
RescueName == "__temp_weight_distributed_end.ckpt"

VARIABLES
    num_nodes,            \* plugin.num_nodes
    num_processes,        \* plugin.num_processes = len(parallel_devices)
    trainer_state,        \* trainer.state
    colab,                \* on_colab_kaggle()
    run,                  \* number of the run under way on the plugin, from 1
    queue_run,            \* per node: the run in which setup created the queue (0: none yet)
    ckpt_cb,              \* None when trainer.checkpoint_callback is None, else
                          \* the best_model_path the callback holds after the run
    ppc,                  \* parent process of each node: position
    mp_queue,             \* per node: content of the SimpleQueue
    parent_results,       \* per node: plugin._results of the parent
    parent_best,          \* per node: checkpoint_callback.best_model_path of the parent
    parent_loaded,        \* per node: checkpoints loaded into the parent's model
    got,                  \* per node: values the parent read from the queue, in order
    wpc,                  \* per worker: next statement of new_process
    tpu_local_core_rank,  \* per worker
    tpu_global_core_rank, \* per worker
    global_rank,          \* per worker
    world_size,           \* per worker
    optimizers,           \* per worker: accelerator.optimizers
    results,              \* per worker: local `results` of new_process
    arrived,              \* per barrier name: workers that called rendezvous(name)
    files,                \* <<node, path>> of checkpoint files on disk
    save_calls,           \* history: <<worker, path>> of every self.save call
    put_log,              \* history per node: <<worker, value>> of every queue put
    trace,                \* history per worker: statements of new_process executed
    reduce_kind,          \* the collective call under way: "reduce" or "reduce_decision"
    reduce_op,            \* the reduce_op argument of reduce
    rin,                  \* per worker: the value (output / decision) it passes in
    rpc,                  \* per worker: position in the call
    rout,                 \* per worker: the value the call returned
    mesh_in,              \* <<worker, value>> handed to xm.mesh_reduce so far
    bc_src,               \* the src argument of broadcast (an ordinal)
    bc_obj,               \* per worker: the obj argument of broadcast
    bc_pc,                \* per worker: position in broadcast
    bc_gathered,          \* <<ordinal, tensor>> handed to xm.all_gather so far
    bc_out,               \* per worker: the object broadcast returned
    torch_load_reads,     \* which serialized object torch.load finds in a buffer
                          \* holding several: the "first" or the "last"
    sv_op,                \* the plugin method being called: "save", "save_checkpoint"
    sv_pc,                \* position in that method
    sv_err,               \* the failure of the last write primitive, None if none
    sv_log,               \* the calls the method made so far, in order
    sv_file,              \* what the call's last successful atomic_save wrote
    ck_in,                \* save_checkpoint: the checkpoint mapping as passed
    ck,                   \* save_checkpoint: the local variable checkpoint
    ck_zero,              \* save_checkpoint: self.is_global_zero
    acc_nprocs,           \* Accelerator run: workers start_training spawns (0: none)
    acc_flag,             \* plugin.setup_optimizers_in_pre_dispatch
    acc_state,            \* trainer.state
    acc_conf,             \* the three lists init_optimizers returns in this run
    acc_pc,               \* position of the launching process in the run
    acc_wpc,              \* per spawned worker: position in new_process
    acc_lists,            \* per process: optimizers, lr_schedulers, optimizer_frequencies
    so_log,               \* the setup_optimizers calls of the run, in order
    acc_amp,              \* the precision plugin's connect wraps the model
    acc_model,            \* Accelerator.model in the launching process
    setup_log,            \* what Accelerator.setup called, in order
    acc_schedulers,       \* accelerator.schedulers of the launching process (set: assigned)
    acc_queue,            \* the channel from the rank-zero worker to the launching process
    acc_results,          \* the plugin's _results in the launching process
    results_log,          \* the methods that assigned _results, in order
    acc_ran,              \* what trainer.run_stage() returned, None before it did
    st_op,                \* the step method or backward being called
    st_pc,                \* position in it
    st_in,                \* its first argument as passed by the caller
    st_arg,               \* args[0] now
    st_log,               \* what it did so far, in order
    st_out,               \* what the inner call returned or raised, and the caller got
    st_model,             \* the calls of the model's own step, with what each returned
    st_ret                \* the value the method returned to its caller

spawnVars == <<num_nodes, num_processes, trainer_state, colab, ckpt_cb, run, queue_run, ppc, mp_queue,
               parent_results, parent_best, parent_loaded, got, wpc,
               tpu_local_core_rank, tpu_global_core_rank, global_rank, world_size,
               optimizers, results, arrived, files, save_calls, put_log, trace>>

reduceVars == <<reduce_kind, reduce_op, rin, rpc, rout, mesh_in>>

bcastVars == <<bc_src, bc_obj, bc_pc, bc_gathered, bc_out, torch_load_reads>>

\* Variables of the further specifications (neither spawn protocol nor reduce).
saveVars == <<sv_op, sv_pc, sv_err, sv_log, sv_file, ck_in, ck, ck_zero>>
accSetupVars == <<acc_amp, acc_model, setup_log, acc_schedulers>>
accResultVars == <<acc_queue, acc_results, results_log, acc_ran>>
accVars == <<acc_nprocs, acc_flag, acc_state, acc_conf, acc_pc, acc_wpc, acc_lists, so_log,
             accSetupVars, accResultVars>>
stepVars == <<st_op, st_pc, st_in, st_arg, st_log, st_out, st_model, st_ret>>
extraVars == <<bcastVars, saveVars, accVars, stepVars>>

vars == <<spawnVars, reduceVars, extraVars>>

\* No broadcast under way.
BcastIdle ==
    /\ bc_src = 0
    /\ bc_obj = <<>>
    /\ bc_pc = <<>>
    /\ bc_gathered = {}
    /\ bc_out = <<>>
    /\ torch_load_reads = "first"

\* A raised exception: its class and the words of its message.
Exc(type, msg) == [type |-> type, msg |-> msg]
\* No exception.
NoFailure == Exc(None, <<>>)
\* The mapping without keys.
EmptyCheckpoint == [k \in {} |-> "ok"]
\* A call with its argument and the exception it raised, as kept in sv_log.
Called(name, arg, err) == [call |-> name, arg |-> arg, err |-> err]

\* No save or save_checkpoint called.
SaveIdle ==
    /\ sv_op = None
    /\ sv_pc = "idle"
    /\ sv_err = NoFailure
    /\ sv_log = <<>>
    /\ sv_file = <<>>
    /\ ck_in = EmptyCheckpoint
    /\ ck = EmptyCheckpoint
    /\ ck_zero = FALSE
\* The three lists of Accelerator.__init__.
EmptyLists == [optimizers |-> <<>>, lr_schedulers |-> <<>>, optimizer_frequencies |-> <<>>]
\* A batch: a tensor with the device it is on, or a list, tuple or dict of
\* batches (items; for a dict the values, under keys in the same order).
Batch(kind, device, items) ==
    [kind |-> kind, device |-> device, items |-> items, keys |-> <<>>]
Dict(keys, values) == [kind |-> "dict", device |-> None, items |-> values, keys |-> keys]
NoBatch == Batch(None, None, <<>>)
\* A number, written as the test writes it.
Value(v) == [kind |-> "value", device |-> None, items |-> <<>>, keys |-> <<v>>]
\* One call of the model's own step with what it returned.
ModelCalled(name, ret) == [call |-> name, ret |-> ret]
\* What a call gave: the value returned or the exception raised.
Outcome(inner, caller) == [inner |-> inner, caller |-> caller]

\* No Accelerator run under way.
AccIdle ==
    /\ acc_nprocs = 0
    /\ acc_flag = FALSE
    /\ acc_state = "FITTING"
    /\ acc_conf = EmptyLists
    /\ acc_pc = "init"
    /\ acc_wpc = <<>>
    /\ acc_lists = <<>>
    /\ so_log = <<>>
    /\ acc_amp = FALSE
    /\ acc_model = "model"
    /\ setup_log = <<>>
    /\ acc_schedulers = [set |-> FALSE, val |-> <<>>]
    /\ acc_queue = <<>>
    /\ acc_results = None
    /\ results_log = <<>>
    /\ acc_ran = None
\* No step or backward called.
StepIdle ==
    /\ st_op = None
    /\ st_pc = "idle"
    /\ st_in = NoBatch
    /\ st_arg = NoBatch
    /\ st_log = <<>>
    /\ st_out = Outcome(None, None)
    /\ st_model = <<>>
    /\ st_ret = NoBatch
ExtraIdle == BcastIdle /\ SaveIdle /\ AccIdle /\ StepIdle

\* ------------------------------------------------------------------ topology
Nodes == 0 .. (num_nodes - 1)
Workers == Nodes \X (0 .. (num_processes - 1))
NodeOf(w) == w[1]
WorkersOf(n) == {w \in Workers : NodeOf(w) = n}

\* xm.get_local_ordinal(): index of the core within its host.
XmGetLocalOrdinal(w) == w[2]
\* xm.get_ordinal(): index of the core within the whole mesh.
XmGetOrdinal(w) == w[1] * num_processes + w[2]

BarrierNames == {"pre-run-stage", "end-process"}

\* ------------------------------------------------------------------ new_process
\* new_process with optimizer construction ahead of model placement.
NewProcessNext_OptimizersFirst(pc) ==
    CASE pc = "set_world_ranks" -> "setup_optimizers"
      [] pc = "setup_optimizers" -> "model_to_device"
      [] pc = "model_to_device" -> "precision_connect"
      [] pc = "precision_connect" -> "barrier:pre-run-stage"
      [] pc = "barrier:pre-run-stage" -> "run_stage"
      [] pc = "run_stage" -> "save_end_of_training_weights"
      [] pc = "save_end_of_training_weights" -> "transfer"
      [] pc = "transfer" -> "barrier:end-process"
      [] pc = "barrier:end-process" -> "exited"
      [] OTHER -> pc

\* new_process with the final barrier ahead of the result transfer.
NewProcessNext_BarrierBeforeTransfer(pc) ==
    CASE pc = "set_world_ranks" -> "model_to_device"
      [] pc = "model_to_device" -> "setup_optimizers"
      [] pc = "setup_optimizers" -> "precision_connect"
      [] pc = "precision_connect" -> "barrier:pre-run-stage"
      [] pc = "barrier:pre-run-stage" -> "run_stage"
      [] pc = "run_stage" -> "save_end_of_training_weights"
      [] pc = "save_end_of_training_weights" -> "barrier:end-process"
      [] pc = "barrier:end-process" -> "transfer"
      [] pc = "transfer" -> "exited"
      [] OTHER -> pc

\* Statement that follows statement pc in new_process.
NewProcessNext(pc) ==
    CASE pc = "set_world_ranks" -> "model_to_device"
      [] pc = "model_to_device" -> "setup_optimizers"
      [] pc = "setup_optimizers" -> "precision_connect"
      [] pc = "precision_connect" -> "barrier:pre-run-stage"
      [] pc = "barrier:pre-run-stage" -> "run_stage"
      [] pc = "run_stage" -> "save_end_of_training_weights"
      [] pc = "save_end_of_training_weights" -> "transfer"
      [] pc = "transfer" -> "barrier:end-process"
      [] pc = "barrier:end-process" -> "exited"
      [] OTHER -> pc

\* A worker finishes statement pc and moves to the next one.
Advance(w, pc) ==
    /\ wpc' = [wpc EXCEPT ![w] = NewProcessNext(pc)]
    /\ trace' = [trace EXCEPT ![w] = Append(@, pc)]

\* A rendezvous that returns without waiting for the other processes.
BarrierOpen_NoWait(name) == arrived[name] # {}

\* A worker process that ended without finishing new_process.
Dead(w) == wpc[w] \in {"raised", "killed"}

\* A rendezvous that detects dead processes and stops waiting for them.
BarrierOpen_DetectsDead(name) == {w \in Workers : ~Dead(w)} \subseteq arrived[name]

\* rendezvous(name) returns once every process of the mesh has called it.
BarrierOpen(name) == arrived[name] = Workers

\* is_global_zero of the parallel plugins: the process whose global_rank is 0.
IsGlobalZero(rank) == rank = 0

\* re.sub(".ckpt", ".tmp_end.ckpt", best_model_path) on the modelled paths.
ReSub(path) ==
    CASE path = "best.ckpt" -> "best.tmp_end.ckpt"
      [] OTHER -> path

\* len(path) of a modelled path, as far as the code looks at it (zero or not).
PathLen(path) == IF path = "" THEN 0 ELSE 1

\* Condition under which the "last" weights are saved.
\* The "last" checkpoint saved in every trainer state.
SavesLast_AnyState(best_model_path) ==
    /\ best_model_path # None
    /\ PathLen(best_model_path) > 0

SavesLast(best_model_path) ==
    /\ trainer_state = "FITTING"
    /\ best_model_path # None
    /\ PathLen(best_model_path) > 0

\* The puts made by every worker, whatever its rank.
PutsOnQueue_AnyRank(w) == TRUE

\* The puts made by the workers of non-zero rank only.
PutsOnQueue_NonZeroRank(w) == global_rank[w] > 0

\* Condition under which a worker puts its values on the queue.
PutsOnQueue(w) == global_rank[w] = 0

\* TPUSpawnPlugin.save: TRUE when the call returns, FALSE when it re-raises.
SaveReturns(outcome) == outcome \in {"ok", "rendezvous"}

\* xm.save writes the file on the master ordinal of each host; the rendezvous
\* failure comes after the write, any other failure leaves no file.
XmSaveWrites(w, outcome) == XmGetLocalOrdinal(w) = 0 /\ outcome \in {"ok", "rendezvous"}

\* self.save(state, path) called by worker w with the given outcome of xm.save.
Save(w, path, outcome) ==
    /\ save_calls' = save_calls \cup {<<w, path>>}
    /\ files' = IF XmSaveWrites(w, outcome) THEN files \cup {<<NodeOf(w), path>>} ELSE files

\* ------------------------------------------------------------------ parent
Topologies == {t \in (1 .. MaxWorkers) \X (1 .. MaxWorkers) : t[1] * t[2] <= MaxWorkers}

Init ==
    /\ \E t \in Topologies : num_nodes = t[1] /\ num_processes = t[2]
    /\ trainer_state \in TrainerStates
    /\ colab \in BOOLEAN
    /\ ckpt_cb \in {None} \cup BestPaths
    /\ run = 1
    /\ queue_run = [n \in Nodes |-> 0]
    /\ ppc = [n \in Nodes |-> "init"]
    /\ mp_queue = [n \in Nodes |-> <<>>]
    /\ parent_results = [n \in Nodes |-> None]
    /\ parent_best = [n \in Nodes |-> IF ckpt_cb = None THEN None ELSE ""]
    /\ parent_loaded = [n \in Nodes |-> {}]
    /\ got = [n \in Nodes |-> <<>>]
    /\ wpc = [w \in Workers |-> "unspawned"]
    /\ tpu_local_core_rank = [w \in Workers |-> 0]
    /\ tpu_global_core_rank = [w \in Workers |-> Unset]
    /\ global_rank = [w \in Workers |-> Unset]
    /\ world_size = [w \in Workers |-> Unset]
    /\ optimizers = [w \in Workers |-> <<>>]
    /\ results = [w \in Workers |-> None]
    /\ arrived = [b \in BarrierNames |-> {}]
    /\ files = {}
    /\ save_calls = {}
    /\ put_log = [n \in Nodes |-> <<>>]
    /\ trace = [w \in Workers |-> <<>>]
    /\ reduce_kind = None
    /\ reduce_op = None
    /\ rin = [w \in Workers |-> None]
    /\ rpc = [w \in Workers |-> "idle"]
    /\ rout = [w \in Workers |-> None]
    /\ mesh_in = {}
    /\ ExtraIdle

configVars == <<num_nodes, num_processes, trainer_state, colab, ckpt_cb, run, queue_run>>
parentVars == <<ppc, parent_results, parent_best, parent_loaded, got>>
rankVars == <<tpu_local_core_rank, tpu_global_core_rank, global_rank, world_size>>

\* TPUSpawnPlugin.setup: create_mp_queue.
Setup(n) ==
    /\ ppc[n] = "init"
    /\ mp_queue' = [mp_queue EXCEPT ![n] = <<>>]
    /\ queue_run' = [queue_run EXCEPT ![n] = run]
    /\ ppc' = [ppc EXCEPT ![n] = "setup"]
    /\ UNCHANGED <<extraVars, reduceVars, num_nodes, num_processes, trainer_state, colab, ckpt_cb, run,
                   parent_results, parent_best, parent_loaded, got, wpc,
                   rankVars, optimizers, results, arrived, files, save_calls, put_log, trace>>

\* start_training / start_evaluating / start_predicting: xmp.spawn starts the
\* node's workers in new_process, each holding the parent's queue.
StartTraining(n) ==
    /\ ppc[n] = "setup"
    /\ ppc' = [ppc EXCEPT ![n] = "spawning"]
    /\ wpc' = [w \in Workers |-> IF NodeOf(w) = n THEN "set_world_ranks" ELSE wpc[w]]
    /\ UNCHANGED <<extraVars, reduceVars, configVars, mp_queue, parent_results, parent_best, parent_loaded, got,
                   rankVars, optimizers, results, arrived, files, save_calls, put_log, trace>>

\* xmp.spawn joins the workers: it returns when all of them exited.
SpawnReturns(n) ==
    /\ ppc[n] = "spawning"
    /\ \A w \in WorkersOf(n) : wpc[w] = "exited"
    /\ ppc' = [ppc EXCEPT ![n] = "get_best"]
    /\ UNCHANGED <<extraVars, reduceVars, configVars, mp_queue, parent_results, parent_best, parent_loaded, got, wpc,
                   rankVars, optimizers, results, arrived, files, save_calls, put_log, trace>>

\* ------------------------------------------------------------------ worker
\* set_world_ranks (first statement of new_process that changes the plugin).
SetWorldRanks(w) ==
    /\ wpc[w] = "set_world_ranks"
    /\ tpu_local_core_rank' = [tpu_local_core_rank EXCEPT ![w] = XmGetLocalOrdinal(w)]
    /\ tpu_global_core_rank' = [tpu_global_core_rank EXCEPT ![w] = XmGetOrdinal(w)]
    /\ global_rank' = [global_rank EXCEPT ![w] = tpu_local_core_rank'[w]]
    /\ world_size' = [world_size EXCEPT ![w] = num_nodes * num_processes]
    /\ Advance(w, "set_world_ranks")
    /\ UNCHANGED <<extraVars, reduceVars, configVars, parentVars, mp_queue, optimizers, results, arrived, files,
                   save_calls, put_log>>

\* self.model_to_device()
ModelToDevice(w) ==
    /\ wpc[w] = "model_to_device"
    /\ Advance(w, "model_to_device")
    /\ UNCHANGED <<extraVars, reduceVars, configVars, parentVars, mp_queue, rankVars, optimizers, results, arrived,
                   files, save_calls, put_log>>

\* The lists init_optimizers returns, as stored by Accelerator.setup_optimizers.
SetupOptimizersResult(old) ==
    IF trainer_state \notin {"FITTING", "TUNING"} THEN old ELSE <<"optimizer">>

\* trainer.accelerator.setup_optimizers(trainer)
SetupOptimizers(w) ==
    /\ wpc[w] = "setup_optimizers"
    /\ optimizers' = [optimizers EXCEPT ![w] = SetupOptimizersResult(@)]
    /\ Advance(w, "setup_optimizers")
    /\ UNCHANGED <<extraVars, reduceVars, configVars, parentVars, mp_queue, rankVars, results, arrived, files,
                   save_calls, put_log>>

\* trainer.precision_plugin.connect(self._model, None, None)
PrecisionConnect(w) ==
    /\ wpc[w] = "precision_connect"
    /\ Advance(w, "precision_connect")
    /\ UNCHANGED <<extraVars, reduceVars, configVars, parentVars, mp_queue, rankVars, optimizers, results, arrived,
                   files, save_calls, put_log>>

BarrierPc(name) ==
    IF name = "pre-run-stage" THEN "barrier:pre-run-stage" ELSE "barrier:end-process"

\* self.barrier(name): the worker calls rendezvous(name) ...
BarrierEnter(w, name) ==
    /\ wpc[w] = BarrierPc(name)
    /\ w \notin arrived[name]
    /\ arrived' = [arrived EXCEPT ![name] = @ \cup {w}]
    /\ UNCHANGED <<extraVars, reduceVars, configVars, parentVars, mp_queue, wpc, rankVars, optimizers, results, files,
                   save_calls, put_log, trace>>

\* ... and rendezvous(name) returns.
BarrierLeave(w, name) ==
    /\ wpc[w] = BarrierPc(name)
    /\ w \in arrived[name]
    /\ BarrierOpen(name)
    /\ Advance(w, BarrierPc(name))
    /\ UNCHANGED <<extraVars, reduceVars, configVars, parentVars, mp_queue, rankVars, optimizers, results, arrived,
                   files, save_calls, put_log>>

\* results = trainer.run_stage()
RunStage(w) ==
    /\ wpc[w] = "run_stage"
    /\ \E r \in Results : results' = [results EXCEPT ![w] = r]
    /\ Advance(w, "run_stage")
    /\ UNCHANGED <<extraVars, reduceVars, configVars, parentVars, mp_queue, rankVars, optimizers, arrived, files,
                   save_calls, put_log>>

\* The rescue checkpoint written by every worker of the platform.
SaveSpawnWeightsWrites_EveryWorker(w) == colab

\* save_spawn_weights writes the rescue checkpoint when trainer.is_global_zero.
SaveSpawnWeightsWrites(w) == colab /\ IsGlobalZero(global_rank[w])

\* self.__save_end_of_training_weights(self.lightning_module)
SaveEndOfTrainingWeights(w) ==
    /\ wpc[w] = "save_end_of_training_weights"
    /\ IF SaveSpawnWeightsWrites(w)
       THEN \E outcome \in SaveOutcomes :
               /\ Save(w, RescueName, outcome)
               /\ IF SaveReturns(outcome)
                  THEN Advance(w, "save_end_of_training_weights")
                  ELSE wpc' = [wpc EXCEPT ![w] = "raised"] /\ UNCHANGED trace
       ELSE /\ Advance(w, "save_end_of_training_weights")
            /\ UNCHANGED <<files, save_calls>>
    /\ UNCHANGED <<extraVars, reduceVars, configVars, parentVars, mp_queue, rankVars, optimizers, results, arrived,
                   put_log>>

\* checkpoint_callback.best_model_path if checkpoint_callback else None
BestModelPath == ckpt_cb

\* The three puts followed by one more.
QueuePuts_Extra(best_model_path, last_path, res) == <<best_model_path, last_path, res, res>>

\* The three puts of transfer_distrib_spawn_state_on_fit_end, in program order.
QueuePuts(best_model_path, last_path, res) == <<best_model_path, last_path, res>>

\* self.transfer_distrib_spawn_state_on_fit_end(results)
Transfer(w) ==
    /\ wpc[w] = "transfer"
    /\ LET best_model_path == BestModelPath
           saves == SavesLast(best_model_path)
           last_path == IF saves THEN ReSub(best_model_path) ELSE None
           puts == IF PutsOnQueue(w)
                   THEN QueuePuts(best_model_path, last_path, results[w])
                   ELSE <<>>
           n == NodeOf(w)
       IN  \E outcome \in SaveOutcomes :
              /\ IF saves
                 THEN Save(w, last_path, outcome)
                 ELSE outcome = "ok" /\ UNCHANGED <<files, save_calls>>
              /\ IF saves /\ ~SaveReturns(outcome)
                 THEN /\ wpc' = [wpc EXCEPT ![w] = "raised"]
                      /\ UNCHANGED <<trace, mp_queue, put_log>>
                 ELSE /\ mp_queue' = [mp_queue EXCEPT ![n] = @ \o puts]
                      /\ put_log' = [put_log EXCEPT ![n] =
                                        @ \o [i \in 1 .. Len(puts) |-> <<w, puts[i]>>]]
                      /\ Advance(w, "transfer")
    /\ UNCHANGED <<extraVars, reduceVars, configVars, parentVars, rankVars, optimizers, results, arrived>>

\* ------------------------------------------------------------------ post_dispatch
\* global_rank of the parent's plugin, which never runs set_world_ranks.
ParentGlobalRank == 0

\* Truth value of a queue value used as a condition (`if last_path`).
Truthy(v) == v # None /\ v # ""

\* best_path = self.mp_queue.get()   (blocks while the queue is empty)
PostDispatchGetBest(n) ==
    /\ ppc[n] = "get_best"
    /\ mp_queue[n] # <<>>
    /\ got' = [got EXCEPT ![n] = Append(@, Head(mp_queue[n]))]
    /\ mp_queue' = [mp_queue EXCEPT ![n] = Tail(@)]
    /\ ppc' = [ppc EXCEPT ![n] = "get_last"]
    /\ UNCHANGED <<extraVars, reduceVars, configVars, parent_results, parent_best, parent_loaded, wpc, rankVars,
                   optimizers, results, arrived, files, save_calls, put_log, trace>>

\* last_path = self.mp_queue.get()
PostDispatchGetLast(n) ==
    /\ ppc[n] = "get_last"
    /\ mp_queue[n] # <<>>
    /\ got' = [got EXCEPT ![n] = Append(@, Head(mp_queue[n]))]
    /\ mp_queue' = [mp_queue EXCEPT ![n] = Tail(@)]
    /\ ppc' = [ppc EXCEPT ![n] = "get_results"]
    /\ UNCHANGED <<extraVars, reduceVars, configVars, parent_results, parent_best, parent_loaded, wpc, rankVars,
                   optimizers, results, arrived, files, save_calls, put_log, trace>>

\* _results bound to the first value read instead of the third.
PostDispatchResults_First(reads) == reads[1]

\* The variable of post_dispatch each of the three reads is bound to.
PostDispatchBest(reads) == reads[1]
PostDispatchLast(reads) == reads[2]
PostDispatchResults(reads) == reads[3]

\* self._results = self.mp_queue.get() and the rest of post_dispatch:
\* best path handed to the checkpoint callback, "last" weights loaded,
\* __load_weights_on_main_process / load_spawn_weights.
PostDispatchFinish(n) ==
    /\ ppc[n] = "get_results"
    /\ mp_queue[n] # <<>>
    /\ LET reads == Append(got[n], Head(mp_queue[n]))
           best_path == PostDispatchBest(reads)
           last_path == PostDispatchLast(reads)
           loads_last == Truthy(last_path) /\ trainer_state = "FITTING"
           last_missing == loads_last /\ <<n, last_path>> \notin files
           loads_rescue == /\ colab /\ trainer_state = "FITTING"
                           /\ IsGlobalZero(ParentGlobalRank)
           rescue_missing == loads_rescue /\ <<n, RescueName>> \notin files
       IN  /\ got' = [got EXCEPT ![n] = reads]
           /\ mp_queue' = [mp_queue EXCEPT ![n] = Tail(@)]
           /\ parent_results' = [parent_results EXCEPT ![n] = PostDispatchResults(reads)]
           /\ parent_best' = [parent_best EXCEPT ![n] = IF ckpt_cb # None THEN best_path ELSE @]
           /\ parent_loaded' = [parent_loaded EXCEPT ![n] =
                   (IF loads_last /\ ~last_missing THEN @ \cup {last_path} ELSE @)
                   \cup (IF loads_rescue /\ ~last_missing /\ ~rescue_missing
                         THEN {RescueName} ELSE {})]
           /\ files' = IF loads_rescue /\ ~last_missing /\ ~rescue_missing
                       THEN files \ {<<n, RescueName>>} ELSE files
           /\ ppc' = [ppc EXCEPT ![n] = IF last_missing \/ rescue_missing
                                        THEN "raised" ELSE "done"]
    /\ UNCHANGED <<extraVars, reduceVars, configVars, wpc, rankVars, optimizers, results, arrived, save_calls,
                   put_log, trace>>

\* ------------------------------------------------------------------ specification
Next ==
    \/ \E n \in Nodes : Setup(n)
    \/ \E n \in Nodes : StartTraining(n)
    \/ \E n \in Nodes : SpawnReturns(n)
    \/ \E n \in Nodes : PostDispatchGetBest(n)
    \/ \E n \in Nodes : PostDispatchGetLast(n)
    \/ \E n \in Nodes : PostDispatchFinish(n)
    \/ \E w \in Workers : SetWorldRanks(w)
    \/ \E w \in Workers : ModelToDevice(w)
    \/ \E w \in Workers : SetupOptimizers(w)
    \/ \E w \in Workers : PrecisionConnect(w)
    \/ \E w \in Workers, name \in BarrierNames : BarrierEnter(w, name)
    \/ \E w \in Workers, name \in BarrierNames : BarrierLeave(w, name)
    \/ \E w \in Workers : RunStage(w)
    \/ \E w \in Workers : SaveEndOfTrainingWeights(w)
    \/ \E w \in Workers : Transfer(w)

Spec == Init /\ [][Next]_vars

\* post_dispatch is over on every node and the caller starts the next run on
\* the same plugin (fit, then test, ...): with or without a new call of setup,
\* with the trainer state and checkpoint callback of that run. xmp.spawn will
\* fork new worker processes; the queue object and the files on disk stay.
NextRun ==
    /\ run < MaxRuns
    /\ \A n \in Nodes : ppc[n] = "done"
    /\ run' = run + 1
    /\ \E again \in BOOLEAN : ppc' = [n \in Nodes |-> IF again THEN "init" ELSE "setup"]
    /\ trainer_state' \in TrainerStates
    /\ ckpt_cb' \in {None} \cup BestPaths
    /\ parent_best' = [n \in Nodes |-> IF ckpt_cb' = None THEN None ELSE ""]
    /\ parent_loaded' = [n \in Nodes |-> {}]
    /\ got' = [n \in Nodes |-> <<>>]
    /\ wpc' = [w \in Workers |-> "unspawned"]
    /\ tpu_local_core_rank' = [w \in Workers |-> 0]
    /\ tpu_global_core_rank' = [w \in Workers |-> Unset]
    /\ global_rank' = [w \in Workers |-> Unset]
    /\ world_size' = [w \in Workers |-> Unset]
    /\ optimizers' = [w \in Workers |-> <<>>]
    /\ results' = [w \in Workers |-> None]
    /\ arrived' = [b \in BarrierNames |-> {}]
    /\ save_calls' = {}
    /\ put_log' = [n \in Nodes |-> <<>>]
    /\ trace' = [w \in Workers |-> <<>>]
    /\ UNCHANGED <<extraVars, reduceVars, num_nodes, num_processes, colab, queue_run, mp_queue,
                   parent_results, files>>

NextRuns ==
    \/ Next
    \/ NextRun

\* The queue belongs to one parent process and the workers it forks: one node.
InitRuns == Init /\ num_nodes = 1

\* Runs started one after the other on the same plugin.
SpecRuns == InitRuns /\ [][NextRuns]_vars

\* Every process the largest topology can hold.
AllNodes == 0 .. (MaxWorkers - 1)
AllWorkers == AllNodes \X (0 .. (MaxWorkers - 1))

\* The steps of one node's parent process, and of one worker process.
ParentStep(n) ==
    /\ n \in Nodes
    /\ \/ Setup(n) \/ StartTraining(n) \/ SpawnReturns(n)
       \/ PostDispatchGetBest(n) \/ PostDispatchGetLast(n) \/ PostDispatchFinish(n)
WorkerStep(w) ==
    /\ w \in Workers
    /\ \/ SetWorldRanks(w) \/ ModelToDevice(w) \/ SetupOptimizers(w) \/ PrecisionConnect(w)
       \/ \E name \in BarrierNames : BarrierEnter(w, name) \/ BarrierLeave(w, name)
       \/ RunStage(w) \/ SaveEndOfTrainingWeights(w) \/ Transfer(w)

\* The spawn protocol with every process scheduled fairly: a parent or a worker
\* that can take its next step eventually takes it.
SpecFair ==
    /\ Init /\ [][Next]_vars
    /\ \A n \in AllNodes : WF_vars(ParentStep(n))
    /\ \A w \in AllWorkers : WF_vars(WorkerStep(w))

\* A worker process is killed at whatever statement of new_process it is at:
\* it takes no further step and leaves what it did so far as it is.
WorkerKilled(w) ==
    /\ wpc[w] \notin {"unspawned", "exited", "raised", "killed"}
    /\ wpc' = [wpc EXCEPT ![w] = "killed"]
    /\ UNCHANGED <<extraVars, reduceVars, configVars, parentVars, mp_queue, rankVars, optimizers, results, arrived,
                   files, save_calls, put_log, trace>>

NextKill ==
    \/ Next
    \/ \E w \in Workers : WorkerKilled(w)

\* The spawn protocol on a host that may kill worker processes.
SpecKill == Init /\ [][NextKill]_vars

\* ------------------------------------------------------------------ reduce
\* A reduce_op argument: a str (its characters), a ReduceOp member or None.
StrOp(chars) == [type |-> "str", val |-> chars]
EnumOp(chars) == [type |-> "ReduceOp", val |-> chars]
NoneOp == [type |-> "NoneType", val |-> <<>>]

ReduceOpSUM == EnumOp(<<"S", "U", "M">>)

ReduceOps ==
    { StrOp(<<"s", "u", "m">>), StrOp(<<"S", "U", "M">>), StrOp(<<"S", "u", "m">>),
      StrOp(<<"m", "e", "a", "n">>), StrOp(<<"M", "E", "A", "N">>),
      StrOp(<<"M", "e", "a", "n">>),
      StrOp(<<"a", "v", "g">>), StrOp(<<"A", "V", "G">>), StrOp(<<"a", "V", "g">>),
      StrOp(<<"m", "a", "x">>), StrOp(<<"M", "A", "X">>), StrOp(<<"m", "i", "n">>),
      StrOp(<<>>),
      ReduceOpSUM, EnumOp(<<"M", "A", "X">>), EnumOp(<<"M", "I", "N">>),
      NoneOp }

Values == (0 - MaxVal) .. MaxVal

\* str.lower() on one character, and on a string.
LowerChar(c) ==
    CASE c = "S" -> "s" [] c = "U" -> "u" [] c = "M" -> "m" [] c = "E" -> "e"
      [] c = "A" -> "a" [] c = "N" -> "n" [] c = "V" -> "v" [] c = "G" -> "g"
      [] c = "X" -> "x" [] c = "I" -> "i"
      [] OTHER -> c
Lower(str) == [i \in 1 .. Len(str) |-> LowerChar(str[i])]

\* The validation without its ReduceOp half.
InvalidReduceOp_StrOnly(op) ==
    /\ op.type = "str"
    /\ Lower(op.val) \notin {<<"s", "u", "m">>, <<"m", "e", "a", "n">>, <<"a", "v", "g">>}

\* _invalid_reduce_op or _invalid_reduce_op_str
InvalidReduceOp(op) ==
    \/ op.type = "ReduceOp" /\ op # ReduceOpSUM
    \/ /\ op.type = "str"
       /\ Lower(op.val) \notin {<<"s", "u", "m">>, <<"m", "e", "a", "n">>, <<"a", "v", "g">>}

\* The mean/avg test without .lower().
DividesByWorldSize_CaseSensitive(op) ==
    op.type = "str" /\ op.val \in {<<"a", "v", "g">>, <<"m", "e", "a", "n">>}

\* isinstance(reduce_op, str) and reduce_op.lower() in ("avg", "mean")
DividesByWorldSize(op) ==
    op.type = "str" /\ Lower(op.val) \in {<<"a", "v", "g">>, <<"m", "e", "a", "n">>}

Abs(x) == IF x < 0 THEN 0 - x ELSE x

RECURSIVE GCD(_, _)
GCD(a, b) == IF b = 0 THEN a ELSE GCD(b, a % b)

\* A number as the fraction <<numerator, denominator>> in lowest terms.
Frac(a, b) == LET g == GCD(Abs(a), b) IN <<a \div g, b \div g>>

\* output / self.world_size (true division)
TrueDiv(x, n) == Frac(x[1], x[2] * n)

RECURSIVE SumOf(_)
SumOf(S) == IF S = {} THEN 0 ELSE LET m == CHOOSE m \in S : TRUE IN m[2] + SumOf(S \ {m})

\* xm.mesh_reduce('reduce', output, sum): the sum of what every process handed in.
MeshReduce(contributions) == Frac(SumOf(contributions), 1)

\* self.reduce(decision, "sum"): the second positional parameter of reduce is
\* `group`, so reduce_op keeps its default.
ReduceDecisionOp == NoneOp

\* int(decision)
BoolToInt(b) == IF b THEN 1 ELSE 0

\* A majority vote instead of unanimity.
DecisionFromSum_Majority(sum, ws) == 2 * sum[1] > ws * sum[2]

\* bool(decision == self.world_size)
DecisionFromSum(sum, ws) == sum = Frac(ws, 1)

CurrentOp == IF reduce_kind = "reduce" THEN reduce_op ELSE ReduceDecisionOp

\* reduce up to the collective: the op is validated, then mesh_reduce is entered.
ReduceCall(w) ==
    /\ rpc[w] = "call"
    /\ IF InvalidReduceOp(CurrentOp)
       THEN /\ rpc' = [rpc EXCEPT ![w] = "raised"]
            /\ UNCHANGED mesh_in
       ELSE /\ rpc' = [rpc EXCEPT ![w] = "mesh_reduce"]
            /\ mesh_in' = mesh_in \cup
                   {<<w, IF reduce_kind = "reduce" THEN rin[w] ELSE BoolToInt(rin[w])>>}
    /\ UNCHANGED <<extraVars, spawnVars, reduce_kind, reduce_op, rin, rout>>

\* mesh_reduce returns once every process handed its value in; the rest of
\* reduce (and of reduce_decision) follows.
ReduceReturn(w) ==
    /\ rpc[w] = "mesh_reduce"
    /\ {m[1] : m \in mesh_in} = Workers
    /\ LET summed == MeshReduce(mesh_in)
           output == IF DividesByWorldSize(CurrentOp)
                     THEN TrueDiv(summed, world_size[w])
                     ELSE summed
       IN  rout' = [rout EXCEPT ![w] = IF reduce_kind = "reduce"
                                       THEN output
                                       ELSE DecisionFromSum(output, world_size[w])]
    /\ rpc' = [rpc EXCEPT ![w] = "returned"]
    /\ UNCHANGED <<extraVars, spawnVars, reduce_kind, reduce_op, rin, mesh_in>>

ReduceTopologies == {t \in (1 .. MaxProcs) \X (1 .. MaxProcs) : t[1] * t[2] <= MaxProcs}

\* Every worker is in its run stage (ranks set by set_world_ranks) and calls
\* reduce with the same reduce_op, or reduce_decision.
InitReduce ==
    /\ \E t \in ReduceTopologies : num_nodes = t[1] /\ num_processes = t[2]
    /\ trainer_state = "FITTING"
    /\ colab = FALSE
    /\ ckpt_cb = None
    /\ run = 1
    /\ queue_run = [n \in Nodes |-> 1]
    /\ ppc = [n \in Nodes |-> "spawning"]
    /\ mp_queue = [n \in Nodes |-> <<>>]
    /\ parent_results = [n \in Nodes |-> None]
    /\ parent_best = [n \in Nodes |-> None]
    /\ parent_loaded = [n \in Nodes |-> {}]
    /\ got = [n \in Nodes |-> <<>>]
    /\ wpc = [w \in Workers |-> "run_stage"]
    /\ tpu_local_core_rank = [w \in Workers |-> XmGetLocalOrdinal(w)]
    /\ tpu_global_core_rank = [w \in Workers |-> XmGetOrdinal(w)]
    /\ global_rank = [w \in Workers |-> XmGetLocalOrdinal(w)]
    /\ world_size = [w \in Workers |-> num_nodes * num_processes]
    /\ optimizers = [w \in Workers |-> <<"optimizer">>]
    /\ results = [w \in Workers |-> None]
    /\ arrived = [b \in BarrierNames |-> IF b = "pre-run-stage" THEN Workers ELSE {}]
    /\ files = {}
    /\ save_calls = {}
    /\ put_log = [n \in Nodes |-> <<>>]
    /\ trace = [w \in Workers |-> <<"set_world_ranks", "model_to_device", "setup_optimizers",
                                    "precision_connect", "barrier:pre-run-stage">>]
    /\ reduce_kind \in {"reduce", "reduce_decision"}
    /\ reduce_op \in (IF reduce_kind = "reduce" THEN ReduceOps ELSE {NoneOp})
    /\ rin \in [Workers -> (IF reduce_kind = "reduce" THEN Values ELSE BOOLEAN)]
    /\ rpc = [w \in Workers |-> "call"]
    /\ rout = [w \in Workers |-> None]
    /\ mesh_in = {}
    /\ ExtraIdle

NextReduce ==
    \/ \E w \in Workers : ReduceCall(w)
    \/ \E w \in Workers : ReduceReturn(w)

SpecReduce == InitReduce /\ [][NextReduce]_vars

\* ------------------------------------------------------------------ properties
\* Worker w has executed statement stmt of new_process.
Done(w, stmt) == \E i \in 1 .. Len(trace[w]) : trace[w][i] = stmt

\* The puts worker w made on its node's queue, in order.
PutsBy(w) == SelectSeq(put_log[NodeOf(w)], LAMBDA e : e[1] = w)

\* The "last" path a worker is expected to report.
ExpectedLast ==
    IF trainer_state = "FITTING" /\ ckpt_cb \notin {None, ""}
    THEN "best.tmp_end.ckpt"
    ELSE None

\* C1: only a worker whose global_rank is 0 puts on the result queue; once its
\* result transfer is over it has put exactly three values, in the order
\* best model path (or None), last path (or None), run_stage result; a worker
\* with another global_rank, or one that has not finished the transfer, has
\* put nothing.
C1_OnlyGlobalRankZeroPutsThree ==
    \A w \in Workers :
        IF global_rank[w] = 0 /\ Done(w, "transfer")
        THEN PutsBy(w) = << <<w, ckpt_cb>>, <<w, ExpectedLast>>, <<w, results[w]>> >>
        ELSE PutsBy(w) = <<>>

C1_Witness ==
    \E w, v \in Workers :
        /\ NodeOf(w) = NodeOf(v)
        /\ global_rank[w] = 0 /\ global_rank[v] > 0
        /\ Done(w, "transfer") /\ Done(v, "transfer")
        /\ Len(put_log[NodeOf(w)]) = 3
        /\ ExpectedLast # None

\* C2: post_dispatch starts after the spawn call returned (every worker of the
\* node exited); it reads at most three values, in the order they were put;
\* when it is over it has read exactly three values, the queue is empty and
\* the parent's results are the run_stage result of the worker whose
\* global_rank is 0.
C2_PostDispatchReadsThreeInOrder ==
    \A n \in Nodes :
        /\ ppc[n] \in {"get_best", "get_last", "get_results", "done", "raised"}
              => \A w \in WorkersOf(n) : wpc[w] = "exited"
        /\ Len(got[n]) <= 3
        /\ Len(got[n]) <= Len(put_log[n])
        /\ \A i \in 1 .. Len(got[n]) : got[n][i] = put_log[n][i][2]
        /\ ppc[n] \in {"done", "raised"} =>
              /\ Len(got[n]) = 3
              /\ mp_queue[n] = <<>>
              /\ \E w \in WorkersOf(n) : global_rank[w] = 0
              /\ \A w \in WorkersOf(n) : global_rank[w] = 0 => parent_results[n] = results[w]

C2_Witness ==
    \E n \in Nodes :
        /\ ppc[n] = "done"
        /\ \E w, v \in WorkersOf(n) : global_rank[w] = 0 /\ results[w] # results[v]
        /\ got[n][1] = "best.ckpt"

\* C3: a worker is at or past trainer.run_stage() only when every worker has
\* finished model placement, optimizer construction and precision connect and
\* has arrived at the "pre-run-stage" barrier.
C3_NoRunStageBeforeAllArrived ==
    \A w \in Workers :
        (wpc[w] = "run_stage" \/ Done(w, "run_stage")) =>
            \A v \in Workers :
                /\ Done(v, "model_to_device")
                /\ Done(v, "setup_optimizers")
                /\ Done(v, "precision_connect")
                /\ v \in arrived["pre-run-stage"]

C3_Witness ==
    \E w, v \in Workers :
        /\ w # v
        /\ Done(w, "run_stage")
        /\ wpc[v] = "barrier:pre-run-stage"

\* The statements of new_process up to the run stage, in program order.
NewProcessOrder ==
    <<"set_world_ranks", "model_to_device", "setup_optimizers", "precision_connect",
      "barrier:pre-run-stage", "run_stage">>

\* C4: on every worker the statements executed so far are a prefix of
\* set_world_ranks, model_to_device, setup_optimizers, precision connect,
\* barrier("pre-run-stage"), run_stage: none is skipped or reordered.
C4_SetupOrder ==
    \A w \in Workers :
        \A i \in 1 .. Len(trace[w]) :
            i <= Len(NewProcessOrder) => trace[w][i] = NewProcessOrder[i]

C4_Witness ==
    \E w \in Workers :
        /\ Len(trace[w]) >= Len(NewProcessOrder)
        /\ trace[w][Len(NewProcessOrder)] = "run_stage"

\* C5: a worker calls the "end-process" rendezvous only after its own result
\* transfer; when a worker has passed the final barrier, every worker whose
\* global_rank is 0 has put its three values; when the parent starts
\* post_dispatch its queue holds three values.
C5_TransferBeforeFinalBarrier ==
    /\ \A w \in Workers : w \in arrived["end-process"] => Done(w, "transfer")
    /\ \A w \in Workers :
          wpc[w] = "exited" => \A v \in Workers : global_rank[v] = 0 => Len(PutsBy(v)) = 3
    /\ \A n \in Nodes : ppc[n] = "get_best" => Len(mp_queue[n]) = 3

C5_Witness ==
    \E n \in Nodes :
        /\ ppc[n] = "get_best"
        /\ Len(mp_queue[n]) = 3
        /\ Cardinality(WorkersOf(n)) >= 2

\* C6: once set_world_ranks has run on all workers, exactly one worker of the
\* run has global_rank 0 and world_size is num_nodes * num_processes, the
\* number of workers.
C6_ExactlyOneGlobalZero ==
    (\A w \in Workers : Done(w, "set_world_ranks")) =>
        /\ Cardinality({w \in Workers : global_rank[w] = 0}) = 1
        /\ \A w \in Workers :
              /\ world_size[w] = num_nodes * num_processes
              /\ world_size[w] = Cardinality(Workers)

SumStrOps == {StrOp(<<"s", "u", "m">>), StrOp(<<"S", "U", "M">>), StrOp(<<"S", "u", "m">>)}
MeanAvgStrOps ==
    { StrOp(<<"m", "e", "a", "n">>), StrOp(<<"M", "E", "A", "N">>),
      StrOp(<<"M", "e", "a", "n">>),
      StrOp(<<"a", "v", "g">>), StrOp(<<"A", "V", "G">>), StrOp(<<"a", "V", "g">>) }
UniformInput == \A a, b \in Workers : rin[a] = rin[b]

\* C8: with the same value v on each of the N processes, reduce returns N*v
\* for "sum" and v for "mean" / "avg", in any letter case.
C8_ReduceUniform ==
    \A w \in Workers :
        (reduce_kind = "reduce" /\ rpc[w] = "returned" /\ UniformInput) =>
            /\ reduce_op \in SumStrOps => rout[w] = <<Cardinality(Workers) * rin[w], 1>>
            /\ reduce_op \in MeanAvgStrOps => rout[w] = <<rin[w], 1>>

C8_Witness ==
    \E w \in Workers :
        /\ reduce_kind = "reduce" /\ rpc[w] = "returned" /\ UniformInput
        /\ Cardinality(Workers) >= 2
        /\ rin[w] # 0
        /\ reduce_op = StrOp(<<"A", "V", "G">>)
        /\ rout[w] = <<rin[w], 1>>

InvalidOps ==
    { StrOp(<<"m", "a", "x">>), StrOp(<<"M", "A", "X">>), StrOp(<<"m", "i", "n">>),
      StrOp(<<>>), EnumOp(<<"M", "A", "X">>), EnumOp(<<"M", "I", "N">>) }

\* C9: reduce with a str op outside sum / mean / avg (case-insensitive) or a
\* ReduceOp other than SUM raises before the collective: the process hands
\* nothing to mesh_reduce, never returns a value, and does not go back to
\* the call.
C9_InvalidOpRaisesBeforeCollective ==
    (reduce_kind = "reduce" /\ reduce_op \in InvalidOps) =>
        /\ mesh_in = {}
        /\ \A w \in Workers : rpc[w] \in {"call", "raised"} /\ rout[w] = None

C9_Witness ==
    /\ reduce_kind = "reduce"
    /\ reduce_op = EnumOp(<<"M", "A", "X">>)
    /\ Cardinality(Workers) >= 2
    /\ \A w \in Workers : rpc[w] = "raised"

\* C10: reduce_decision returns, on every process, TRUE iff all N processes
\* passed TRUE.
C10_DecisionUnanimity ==
    \A w \in Workers :
        (reduce_kind = "reduce_decision" /\ rpc[w] = "returned") =>
            rout[w] = (\A v \in Workers : rin[v] = TRUE)

C10_Witness ==
    \E w \in Workers :
        /\ reduce_kind = "reduce_decision" /\ rpc[w] = "returned"
        /\ rout[w] = FALSE
        /\ 2 * Cardinality({v \in Workers : rin[v] = TRUE}) > Cardinality(Workers)

\* ------------------------------------------------------------------ broadcast
\* The spawn protocol with every worker in its run stage, for a topology of tops.
SpawnInRunStage(tops) ==
    /\ \E t \in tops : num_nodes = t[1] /\ num_processes = t[2]
    /\ trainer_state = "FITTING"
    /\ colab = FALSE
    /\ ckpt_cb = None
    /\ run = 1
    /\ queue_run = [n \in Nodes |-> 1]
    /\ ppc = [n \in Nodes |-> "spawning"]
    /\ mp_queue = [n \in Nodes |-> <<>>]
    /\ parent_results = [n \in Nodes |-> None]
    /\ parent_best = [n \in Nodes |-> None]
    /\ parent_loaded = [n \in Nodes |-> {}]
    /\ got = [n \in Nodes |-> <<>>]
    /\ wpc = [w \in Workers |-> "run_stage"]
    /\ tpu_local_core_rank = [w \in Workers |-> XmGetLocalOrdinal(w)]
    /\ tpu_global_core_rank = [w \in Workers |-> XmGetOrdinal(w)]
    /\ global_rank = [w \in Workers |-> XmGetLocalOrdinal(w)]
    /\ world_size = [w \in Workers |-> num_nodes * num_processes]
    /\ optimizers = [w \in Workers |-> <<"optimizer">>]
    /\ results = [w \in Workers |-> None]
    /\ arrived = [b \in BarrierNames |-> IF b = "pre-run-stage" THEN Workers ELSE {}]
    /\ files = {}
    /\ save_calls = {}
    /\ put_log = [n \in Nodes |-> <<>>]
    /\ trace = [w \in Workers |-> <<"set_world_ranks", "model_to_device", "setup_optimizers",
                                    "precision_connect", "barrier:pre-run-stage">>]

\* No reduce under way.
ReduceIdle ==
    /\ reduce_kind = None
    /\ reduce_op = None
    /\ rin = [w \in Workers |-> None]
    /\ rpc = [w \in Workers |-> "idle"]
    /\ rout = [w \in Workers |-> None]
    /\ mesh_in = {}

\* Objects handed to broadcast: sequences of byte-sized fields.
Objects == {<<0>>, <<7>>, <<255>>, <<1, 2>>, <<255, 0>>}

\* torch.save(obj, buffer): the bytes of obj, here its length and its fields.
TorchSave(obj) == <<Len(obj)>> \o obj

\* torch.tensor(data).to(device, dtype=torch.float): every byte as a float.
ToFloatTensor(bytes) == [i \in 1 .. Len(bytes) |-> bytes[i]]

\* data.cpu().byte(): every float as a byte again.
ToBytes(tensor) == [i \in 1 .. Len(tensor) |-> tensor[i] % 256]

\* The serialized objects a buffer holds one after the other.
RECURSIVE SavedObjects(_)
SavedObjects(bytes) ==
    IF bytes = <<>>
    THEN <<>>
    ELSE <<SubSeq(bytes, 2, 1 + bytes[1])>>
         \o SavedObjects(SubSeq(bytes, 2 + bytes[1], Len(bytes)))

\* torch.load(buffer): one object of the buffer.
TorchLoad(bytes, reads) ==
    LET objs == SavedObjects(bytes)
    IN  IF reads = "first" THEN objs[1] ELSE objs[Len(objs)]

\* The worker whose mesh ordinal is k.
WorkerOfOrdinal(k) == CHOOSE w \in Workers : XmGetOrdinal(w) = k

\* xm.all_gather(data_tensor): the tensors of all ordinals, concatenated along
\* dimension 0 in ordinal order.
RECURSIVE AllGatherUpTo(_, _)
AllGatherUpTo(gathered, k) ==
    IF k < 0
    THEN <<>>
    ELSE AllGatherUpTo(gathered, k - 1)
         \o (CHOOSE g \in gathered : g[1] = k)[2]
AllGather(gathered) == AllGatherUpTo(gathered, Cardinality(gathered) - 1)

\* broadcast up to the collective: obj is serialized and handed to all_gather.
BroadcastCall(w) ==
    /\ bc_pc[w] = "call"
    /\ bc_gathered' = bc_gathered \cup {<<XmGetOrdinal(w), ToFloatTensor(TorchSave(bc_obj[w]))>>}
    /\ bc_pc' = [bc_pc EXCEPT ![w] = "all_gather"]
    /\ UNCHANGED <<spawnVars, reduceVars, saveVars, accVars, stepVars, bc_src, bc_obj, bc_out, torch_load_reads>>

\* all_gather returns once every process handed its tensor in; the gathered
\* data is turned into bytes and loaded.
BroadcastReturn(w) ==
    /\ bc_pc[w] = "all_gather"
    /\ {g[1] : g \in bc_gathered} = {XmGetOrdinal(v) : v \in Workers}
    /\ bc_out' = [bc_out EXCEPT ![w] = TorchLoad(ToBytes(AllGather(bc_gathered)),
                                                 torch_load_reads)]
    /\ bc_pc' = [bc_pc EXCEPT ![w] = "returned"]
    /\ UNCHANGED <<spawnVars, reduceVars, saveVars, accVars, stepVars, bc_src, bc_obj, bc_gathered, torch_load_reads>>

BroadcastTopologies == {t \in (1 .. MaxProcs) \X (1 .. MaxProcs) : t[1] * t[2] <= MaxProcs}

\* Every worker calls broadcast(obj, src) with its own obj (all of one size)
\* and the same src.
InitBroadcast ==
    /\ SpawnInRunStage(BroadcastTopologies)
    /\ ReduceIdle
    /\ bc_src \in {XmGetOrdinal(w) : w \in Workers}
    /\ bc_obj \in {f \in [Workers -> Objects] : \A a, b \in Workers : Len(f[a]) = Len(f[b])}
    /\ bc_pc = [w \in Workers |-> "call"]
    /\ bc_gathered = {}
    /\ bc_out = [w \in Workers |-> <<>>]
    /\ torch_load_reads \in {"first", "last"}
    /\ SaveIdle
    /\ AccIdle
    /\ StepIdle

NextBroadcast ==
    \/ \E w \in Workers : BroadcastCall(w)
    \/ \E w \in Workers : BroadcastReturn(w)

SpecBroadcast == InitBroadcast /\ [][NextBroadcast]_vars

\* C11: broadcast(obj, src) returns, on every participant, the object held by
\* the participant whose rank is src.
C11_BroadcastReturnsObjectOfSrc ==
    \A w \in Workers :
        bc_pc[w] = "returned" => bc_out[w] = bc_obj[WorkerOfOrdinal(bc_src)]

\* ------------------------------------------------------------------ save
\* The words `save` looks for in str(e).
RendezvousWords == <<"Failed", "to", "meet", "rendezvous">>

\* `needle in hay` for messages.
Contains(needle, hay) ==
    \E i \in 0 .. (Len(hay) - Len(needle)) : SubSeq(hay, i + 1, i + Len(needle)) = needle

\* What xm.save can raise.
RendezvousNotMet == Exc("RuntimeError", <<"Failed", "to", "meet", "rendezvous", "during", "torch.save">>)
XmSaveFailures ==
    { RendezvousNotMet,
      Exc("RuntimeError", <<"rendezvous", "Failed", "to", "meet">>),
      Exc("RuntimeError", <<"Failed", "to", "serialize", "tensor">>),
      Exc("OSError", <<"No", "space", "left", "on", "device">>) }

\* Every RuntimeError swallowed, whatever its message.
SaveSwallows_AnyRuntimeError(e) == e.type = "RuntimeError"

\* except RuntimeError as e: if "Failed to meet rendezvous" not in str(e): raise e
SaveSwallows(e) == e.type = "RuntimeError" /\ Contains(RendezvousWords, e.msg)

\* A call of a method may start when none is under way.
CallMayStart == sv_pc \in {"idle", "returned", "raised"}

\* TPUSpawnPlugin.save(state_dict, path) is called.
SaveCall ==
    /\ CallMayStart
    /\ sv_op' = "save"
    /\ sv_pc' = "xm.save"
    /\ sv_err' = NoFailure
    /\ sv_log' = <<>>
    /\ sv_file' = <<>>
    /\ UNCHANGED <<spawnVars, reduceVars, bcastVars, accVars, stepVars, ck_in, ck, ck_zero>>

\* xm.save(state_dict, path) inside the try.
XmSave ==
    /\ sv_op = "save"
    /\ sv_pc = "xm.save"
    /\ \E outcome \in {NoFailure} \cup XmSaveFailures :
          /\ sv_log' = Append(sv_log, Called("xm.save", EmptyCheckpoint, outcome))
          /\ sv_err' = outcome
          /\ sv_pc' = IF outcome = NoFailure THEN "returned" ELSE "except"
    /\ UNCHANGED <<spawnVars, reduceVars, bcastVars, accVars, stepVars, sv_op, sv_file, ck_in, ck, ck_zero>>

\* The except clause of save.
SaveExcept ==
    /\ sv_op = "save"
    /\ sv_pc = "except"
    /\ sv_pc' = IF SaveSwallows(sv_err) THEN "returned" ELSE "raised"
    /\ UNCHANGED <<spawnVars, reduceVars, bcastVars, accVars, stepVars, sv_op, sv_err, sv_log, sv_file, ck_in, ck,
                   ck_zero>>

\* ------------------------------------------------------------------ save_checkpoint
\* LightningModule.CHECKPOINT_HYPER_PARAMS_KEY
HyperParamsKey == "hyper_parameters"
CheckpointKeys == {HyperParamsKey, "state_dict"}

\* A value of the mapping: picklable, or an object whose pickling raises
\* AttributeError (a local object), or one whose pickling raises PicklingError.
ValueKinds == {"ok", "local_object", "lambda"}
Checkpoints == UNION {[K -> ValueKinds] : K \in SUBSET CheckpointKeys}

\* What pickling a value of the mapping raises.
PickleFailure(kind) ==
    IF kind = "local_object"
    THEN Exc("AttributeError", <<"Can't", "pickle", "local", "object">>)
    ELSE Exc("PicklingError", <<"Can't", "pickle", "lambda">>)

\* atomic_save(checkpoint, filepath): the mapping is pickled into a buffer, the
\* buffer is then written to the file.
AtomicSaveOutcomes(checkpoint) ==
    LET bad == {k \in DOMAIN checkpoint : checkpoint[k] # "ok"}
    IN  IF bad # {}
        THEN {PickleFailure(checkpoint[k]) : k \in bad}
        ELSE {NoFailure, Exc("OSError", <<"No", "space", "left", "on", "device">>)}

\* TrainingTypePlugin.on_save
OnSave(checkpoint) == checkpoint

\* del checkpoint[key], under `if key in checkpoint`
DropHyperParams(checkpoint) ==
    [k \in DOMAIN checkpoint \ {HyperParamsKey} |-> checkpoint[k]]

\* The write made on every process.
WritesCheckpoint_EveryProcess(is_global_zero) == TRUE

\* if self.is_global_zero:
WritesCheckpoint(is_global_zero) == is_global_zero

\* Every failure of the first write recovered.
Recovers_AnyFailure(e) == TRUE

\* except AttributeError as err:
Recovers(e) == e.type = "AttributeError"

\* TrainingTypePlugin.save_checkpoint(checkpoint, filepath) is called.
SaveCheckpointCall ==
    /\ CallMayStart
    /\ \E checkpoint \in Checkpoints, zero \in BOOLEAN :
          /\ ck_in' = checkpoint
          /\ ck' = checkpoint
          /\ ck_zero' = zero
    /\ sv_op' = "save_checkpoint"
    /\ sv_pc' = "is_global_zero"
    /\ sv_err' = NoFailure
    /\ sv_log' = <<>>
    /\ sv_file' = <<>>
    /\ UNCHANGED <<spawnVars, reduceVars, bcastVars, accVars, stepVars>>

\* if self.is_global_zero: checkpoint = self.on_save(checkpoint)
SaveCheckpointGuard ==
    /\ sv_op = "save_checkpoint"
    /\ sv_pc = "is_global_zero"
    /\ IF WritesCheckpoint(ck_zero)
       THEN /\ sv_log' = Append(sv_log, Called("on_save", ck, NoFailure))
            /\ ck' = OnSave(ck)
            /\ sv_pc' = "atomic_save"
       ELSE /\ sv_pc' = "returned"
            /\ UNCHANGED <<sv_log, ck>>
    /\ UNCHANGED <<spawnVars, reduceVars, bcastVars, accVars, stepVars, sv_op, sv_err, sv_file, ck_in, ck_zero>>

\* One atomic_save(checkpoint, filepath); a failure moves to onFailure.
AtomicSave(onFailure) ==
    /\ \E outcome \in AtomicSaveOutcomes(ck) :
          /\ sv_log' = Append(sv_log, Called("atomic_save", ck, outcome))
          /\ sv_err' = outcome
          /\ IF outcome = NoFailure
             THEN sv_file' = <<ck>> /\ sv_pc' = "returned"
             ELSE sv_pc' = onFailure /\ UNCHANGED sv_file

\* The atomic_save inside the try.
SaveCheckpointWrite ==
    /\ sv_op = "save_checkpoint"
    /\ sv_pc = "atomic_save"
    /\ AtomicSave("except")
    /\ UNCHANGED <<spawnVars, reduceVars, bcastVars, accVars, stepVars, sv_op, ck_in, ck, ck_zero>>

\* The except clause up to its warning; a failure it does not catch propagates.
SaveCheckpointExcept ==
    /\ sv_op = "save_checkpoint"
    /\ sv_pc = "except"
    /\ IF Recovers(sv_err)
       THEN /\ ck' = DropHyperParams(ck)
            /\ sv_log' = Append(sv_log, Called("rank_zero_warn", EmptyCheckpoint, NoFailure))
            /\ sv_pc' = "retry"
       ELSE /\ sv_pc' = "raised"
            /\ UNCHANGED <<sv_log, ck>>
    /\ UNCHANGED <<spawnVars, reduceVars, bcastVars, accVars, stepVars, sv_op, sv_err, sv_file, ck_in, ck_zero>>

\* The atomic_save inside the except clause; its failure propagates.
SaveCheckpointRetry ==
    /\ sv_op = "save_checkpoint"
    /\ sv_pc = "retry"
    /\ AtomicSave("raised")
    /\ UNCHANGED <<spawnVars, reduceVars, bcastVars, accVars, stepVars, sv_op, ck_in, ck, ck_zero>>

\* One process calling save and save_checkpoint of its plugin, any number of times.
InitSave ==
    /\ SpawnInRunStage({<<1, 1>>})
    /\ ReduceIdle
    /\ BcastIdle
    /\ SaveIdle
    /\ AccIdle
    /\ StepIdle

NextSave ==
    \/ SaveCall
    \/ XmSave
    \/ SaveExcept
    \/ SaveCheckpointCall
    \/ SaveCheckpointGuard
    \/ SaveCheckpointWrite
    \/ SaveCheckpointExcept
    \/ SaveCheckpointRetry

SpecSave == InitSave /\ [][NextSave]_vars

\* The calls of sv_log with the given name.
CallsOf(name) == {i \in 1 .. Len(sv_log) : sv_log[i].call = name}
\* The method under way has ended.
Ended(op) == sv_op = op /\ sv_pc \in {"returned", "raised"}

\* C12: save calls xm.save exactly once per call, never a second time; it
\* returns normally when xm.save succeeds or fails with the rendezvous-not-met
\* failure, and re-raises every other failure.
C12_SaveOnceSwallowsRendezvous ==
    /\ sv_op = "save" => Cardinality(CallsOf("xm.save")) <= 1
    /\ Ended("save") =>
          /\ Cardinality(CallsOf("xm.save")) = 1
          /\ sv_pc = "returned" <=> sv_err \in {NoFailure, RendezvousNotMet}
C12_Witness == Ended("save") /\ sv_pc = "returned" /\ sv_err = RendezvousNotMet


\* The calls of sv_log with the given name, in order.
LogOf(name) == SelectSeq(sv_log, LAMBDA c : c.call = name)

\* C13: save_checkpoint writes only on the global-zero process, and there
\* applies on_save to the mapping before its first write attempt; on any other
\* process it neither transforms nor writes.
C13_OnlyGlobalZeroWritesAfterOnSave ==
    sv_op = "save_checkpoint" =>
        /\ ~ck_zero => /\ LogOf("on_save") = <<>>
                       /\ LogOf("atomic_save") = <<>>
                       /\ sv_file = <<>>
        /\ \A i \in CallsOf("atomic_save") :
              /\ ck_zero
              /\ \E j \in CallsOf("on_save") : j < i /\ sv_log[j].arg = ck_in
        /\ Len(LogOf("on_save")) <= 1
C13_Witness ==
    /\ Ended("save_checkpoint")
    /\ ck_zero
    /\ sv_file = <<ck_in>>
    /\ ck_in # EmptyCheckpoint

\* C14: save_checkpoint makes at most two write attempts. A first attempt that
\* fails with AttributeError is followed by the drop of the hyperparameters
\* key, one warning and one retry; a failure of the retry propagates, and a
\* first failure of any other kind propagates after that single attempt.
C14_AtMostOneRetry ==
    LET writes == LogOf("atomic_save")
        warns == Len(LogOf("rank_zero_warn"))
    IN  sv_op = "save_checkpoint" =>
           /\ Len(writes) <= 2
           /\ warns <= 1
           /\ (Ended("save_checkpoint") /\ writes # <<>>) =>
                 IF writes[1].err.type = "AttributeError"
                 THEN /\ Len(writes) = 2
                      /\ warns = 1
                      /\ HyperParamsKey \notin DOMAIN writes[2].arg
                      /\ \A k \in DOMAIN ck_in \ {HyperParamsKey} :
                            k \in DOMAIN writes[2].arg /\ writes[2].arg[k] = ck_in[k]
                      /\ sv_pc = "raised" <=> writes[2].err # NoFailure
                 ELSE /\ Len(writes) = 1
                      /\ warns = 0
                      /\ sv_pc = "raised" <=> writes[1].err # NoFailure
C14_Witness ==
    /\ Ended("save_checkpoint")
    /\ Len(LogOf("atomic_save")) = 2
    /\ sv_pc = "raised"

\* C15: the recovery happens only when the mapping holds the hyperparameters
\* key. With an unpicklable object under that key (and nothing else failing)
\* the save succeeds after the drop with exactly one warning; with the key
\* absent and an unpicklable value elsewhere the save fails and propagates with
\* no drop, no warning and no retry.
C15_RecoveryOnlyWithHyperParamsKey ==
    LET writes == LogOf("atomic_save")
        warns == Len(LogOf("rank_zero_warn"))
    IN  (Ended("save_checkpoint") /\ ck_zero) =>
           /\ warns > 0 => HyperParamsKey \in DOMAIN ck_in
           /\ ( /\ HyperParamsKey \in DOMAIN ck_in
                /\ ck_in[HyperParamsKey] = "local_object"
                /\ \A k \in DOMAIN ck_in \ {HyperParamsKey} : ck_in[k] = "ok"
                /\ sv_err.type # "OSError" )
              => /\ sv_pc = "returned"
                 /\ warns = 1
                 /\ sv_file = <<DropHyperParams(ck_in)>>
           /\ ( /\ HyperParamsKey \notin DOMAIN ck_in
                /\ \E k \in DOMAIN ck_in : ck_in[k] # "ok" )
              => /\ sv_pc = "raised"
                 /\ warns = 0
                 /\ Len(writes) = 1
                 /\ ck = ck_in


\* ------------------------------------------------------------------ Accelerator run
\* What init_optimizers (configure_optimizers of the model) returns in a run.
InitOptimizersResults ==
    { [optimizers |-> <<"sgd">>, lr_schedulers |-> <<>>, optimizer_frequencies |-> <<>>],
      [optimizers |-> <<"adam", "sgd">>, lr_schedulers |-> <<"step_lr">>,
       optimizer_frequencies |-> <<2, 1>>] }

\* The launching process, and the workers start_training spawns from it.
Main == 0
AccWorkers == 1 .. acc_nprocs
AccProcs == {Main} \cup AccWorkers

\* No early return, whatever the trainer state.
SetupOptimizersReturnsEarly_Never(state) == FALSE

\* if trainer.state not in (TrainerState.FITTING, TrainerState.TUNING): return
SetupOptimizersReturnsEarly(state) == state \notin {"FITTING", "TUNING"}

\* The returned lists appended to the stored ones.
StoreLists_Append(old, new) == [f \in DOMAIN old |-> old[f] \o new[f]]

\* self.optimizers = optimizers; self.lr_schedulers = ...; self.optimizer_frequencies = ...
StoreLists(old, new) == new

\* Accelerator.setup_optimizers: the three lists after the call.
StoredLists(old) ==
    IF SetupOptimizersReturnsEarly(acc_state) THEN old ELSE StoreLists(old, acc_conf)

\* The record of one setup_optimizers call: who called, from where, and
\* whether it called init_optimizers.
SetupOptimizersCall(p, phase) ==
    [proc |-> p, phase |-> phase, init |-> ~SetupOptimizersReturnsEarly(acc_state)]

\* A scheduler as a wrapping precision plugin hands it back.
AmpScheduler(s) == IF s = "step_lr" THEN "amp(step_lr)" ELSE s

\* precision_plugin.connect(model, optimizers, lr_schedulers): what it hands
\* back, the model wrapped by a plugin that wraps it.
PluginConnect(model, lists) ==
    [model |-> IF acc_amp THEN "amp(model)" ELSE model,
     optimizers |-> lists.optimizers,
     schedulers |-> IF acc_amp
                    THEN [i \in DOMAIN lists.lr_schedulers |-> AmpScheduler(lists.lr_schedulers[i])]
                    ELSE lists.lr_schedulers]

\* The schedulers connect hands back stored over lr_schedulers as well.
SetupPrecisionPlugin_StoresSchedulers(lists) ==
    [lists EXCEPT !.optimizers = PluginConnect(acc_model, lists).optimizers,
                  !.lr_schedulers = PluginConnect(acc_model, lists).schedulers]

\* Accelerator.setup_precision_plugin: self.optimizers = the optimizers
\* plugin.connect(model, optimizers, lr_schedulers) hands back.
SetupPrecisionPlugin(lists) ==
    [lists EXCEPT !.optimizers = PluginConnect(acc_model, lists).optimizers]

\* The model the accelerator had before connect, kept.
SetupPrecisionModel_Kept(model, lists) == model

\* Accelerator.setup_precision_plugin: self.model = the model connect hands back.
SetupPrecisionModel(model, lists) == PluginConnect(model, lists).model

\* One call made by Accelerator.setup: the model and optimizers it was given
\* (for connect: those it handed back).
SetupCalled(name, model, opts) ==
    [call |-> name, model |-> model, optimizers |-> opts]

\* setup_optimizers called by setup whatever the plugin says.
SetupRunsSetupOptimizers_Always(flag) == TRUE

\* if not self.training_type_plugin.setup_optimizers_in_pre_dispatch:
SetupRunsSetupOptimizers(flag) == ~flag

\* if self.training_type_plugin.setup_optimizers_in_pre_dispatch:
PreDispatchRunsSetupOptimizers(flag) == flag

\* Accelerator.setup(trainer, model)
AccSetup ==
    /\ acc_pc = "init"
    /\ LET runs == SetupRunsSetupOptimizers(acc_flag)
           before == acc_lists[Main]
           built == IF runs THEN StoredLists(before) ELSE before
           returned == PluginConnect(acc_model, built)
       IN  /\ so_log' = IF runs THEN Append(so_log, SetupOptimizersCall(Main, "setup"))
                         ELSE so_log
           /\ acc_lists' = [acc_lists EXCEPT ![Main] = SetupPrecisionPlugin(built)]
           /\ acc_model' = SetupPrecisionModel(acc_model, built)
           /\ acc_schedulers' = [set |-> TRUE, val |-> returned.schedulers]
           /\ setup_log' =
                 <<SetupCalled("training_type_plugin.setup", acc_model, before.optimizers)>>
                 \o (IF runs
                     THEN <<SetupCalled("setup_optimizers", acc_model, before.optimizers)>>
                     ELSE <<>>)
                 \o <<SetupCalled("precision_plugin.connect", returned.model,
                                  returned.optimizers)>>
    /\ acc_pc' = "setup"
    /\ UNCHANGED <<spawnVars, reduceVars, bcastVars, saveVars, stepVars, accResultVars, acc_amp,
                   acc_nprocs, acc_flag, acc_state, acc_conf, acc_wpc>>

\* Accelerator.pre_dispatch(trainer)
AccPreDispatch ==
    /\ acc_pc = "setup"
    /\ IF PreDispatchRunsSetupOptimizers(acc_flag)
       THEN /\ so_log' = Append(so_log, SetupOptimizersCall(Main, "pre_dispatch"))
            /\ acc_lists' = [acc_lists EXCEPT ![Main] = StoredLists(@)]
       ELSE UNCHANGED <<so_log, acc_lists>>
    /\ acc_pc' = "pre_dispatch"
    /\ UNCHANGED <<spawnVars, reduceVars, bcastVars, saveVars, stepVars, accSetupVars, accResultVars,
                   acc_nprocs, acc_flag, acc_state, acc_conf, acc_wpc>>

\* Accelerator.start_training: the plugin runs the stage, TPUSpawnPlugin in
\* spawned workers that each hold a copy of the trainer and its accelerator.
AccStartTraining ==
    /\ acc_pc = "pre_dispatch"
    /\ acc_pc' = "training"
    /\ acc_wpc' = [w \in AccWorkers |-> "new_process"]
    /\ acc_lists' = [p \in AccProcs |-> acc_lists[Main]]
    /\ UNCHANGED <<spawnVars, reduceVars, bcastVars, saveVars, stepVars, accSetupVars, accResultVars,
                   acc_nprocs, acc_flag, acc_state, acc_conf, so_log>>

\* new_process up to its pre-run-stage barrier: model_to_device, then
\* trainer.accelerator.setup_optimizers(trainer), then precision_plugin.connect.
AccNewProcess(w) ==
    /\ acc_pc = "training"
    /\ acc_wpc[w] = "new_process"
    /\ so_log' = Append(so_log, SetupOptimizersCall(w, "new_process"))
    /\ acc_lists' = [acc_lists EXCEPT ![w] = StoredLists(@)]
    /\ acc_wpc' = [acc_wpc EXCEPT ![w] = "run_stage"]
    /\ UNCHANGED <<spawnVars, reduceVars, bcastVars, saveVars, stepVars, accSetupVars, accResultVars,
                   acc_nprocs, acc_flag, acc_state, acc_conf, acc_pc>>

\* Some process of the run is in trainer.run_stage().
InRunStage ==
    /\ acc_pc = "training"
    /\ acc_nprocs > 0 => \E w \in AccWorkers : acc_wpc[w] = "run_stage"

\* _results assigned by start_training of the spawn plugin too.
StartAssignsResults_Always(nprocs) == TRUE

\* start_training / start_evaluating / start_predicting assign
\* self._results = trainer.run_stage() in the base plugin; TPUSpawnPlugin
\* overrides the three with xmp.spawn(self.new_process, ...) and no assignment.
StartAssignsResults(nprocs) == nprocs = 0

\* start_training (start_evaluating, start_predicting) returns: run_stage
\* ended; spawned workers have put their values on the channel and are joined.
AccTrainingEnds ==
    /\ acc_pc = "training"
    /\ \A w \in AccWorkers : acc_wpc[w] = "run_stage"
    /\ st_pc \in {"idle", "returned", "raised"}
    /\ acc_pc' = "done"
    /\ acc_wpc' = [w \in AccWorkers |-> "exited"]
    /\ \E r \in Results :
          /\ acc_ran' = r
          /\ acc_queue' = IF acc_nprocs > 0 THEN QueuePuts(None, None, r) ELSE acc_queue
          /\ IF StartAssignsResults(acc_nprocs)
             THEN /\ acc_results' = r
                  /\ results_log' = Append(results_log, "start_training")
             ELSE UNCHANGED <<acc_results, results_log>>
    /\ UNCHANGED <<spawnVars, reduceVars, bcastVars, saveVars, stepVars, accSetupVars,
                   acc_nprocs, acc_flag, acc_state, acc_conf, acc_lists, so_log>>

\* Accelerator.post_dispatch: the plugin's post_dispatch, which in
\* TPUSpawnPlugin reads the channel three times and keeps the third value.
AccPostDispatch ==
    /\ acc_pc = "done"
    /\ IF acc_nprocs > 0
       THEN /\ Len(acc_queue) >= 3
            /\ acc_results' = PostDispatchResults(acc_queue)
            /\ acc_queue' = SubSeq(acc_queue, 4, Len(acc_queue))
            /\ results_log' = Append(results_log, "post_dispatch")
       ELSE UNCHANGED <<acc_queue, acc_results, results_log>>
    /\ acc_pc' = "post_dispatch"
    /\ UNCHANGED <<spawnVars, reduceVars, bcastVars, saveVars, stepVars, accSetupVars, acc_ran,
                   acc_nprocs, acc_flag, acc_state, acc_conf, acc_wpc, acc_lists, so_log>>


\* ------------------------------------------------------------------ steps and backward
\* self.root_device
RootDevice == "xla:0"

\* The step methods of the Accelerator.
StepKinds == {"training_step", "validation_step", "test_step", "predict_step"}

\* First arguments of a step: a tensor, a dict of tensors, a list holding a
\* tensor, a tuple, a list holding a dict.
Batches ==
    { Batch("tensor", "cpu", <<>>),
      Batch("tensor", RootDevice, <<>>),
      Dict(<<"x", "y">>, <<Batch("tensor", "cpu", <<>>), Batch("tensor", "cpu", <<>>)>>),
      Batch("list", None, <<Batch("tensor", "cpu", <<>>)>>),
      Batch("tuple", None, <<Batch("tensor", "cpu", <<>>), Batch("tensor", RootDevice, <<>>)>>),
      Batch("list", None, <<Dict(<<"x">>, <<Batch("tensor", "cpu", <<>>)>>)>>) }

\* What the plugin's step gives: a value, or an exception raised.
StepOutcomes == {"output", "raise RuntimeError"}
Raises(outcome) == outcome = "raise RuntimeError"

\* What DeterministicModel.training_step__dict_return returns.
DictReturn ==
    Dict(<<"loss", "log", "progress_bar", "train_step_test">>,
         <<Value("171.0"),
           Dict(<<"log_acc1", "log_acc2">>, <<Value("12.0"), Value("7.0")>>),
           Dict(<<"pbar_acc1", "pbar_acc2">>, <<Value("17.0"), Value("19.0")>>),
           Value("549")>>)

\* What the model's step may return: a loss tensor, a dict, None.
StepOutputs == {Batch("tensor", RootDevice, <<>>), DictReturn, Batch("NoneType", None, <<>>)}

\* A step output cut down to its loss.
StepReturns_LossOnly(output) ==
    IF output.kind = "dict" THEN Dict(<<"loss">>, <<output.items[1]>>) ELSE output

\* return self.lightning_module.<step>(*args, **kwargs)
StepReturns(output) == output

\* A step-end hook that keeps the loss and drops the other keys.
StepEnd_LossOnly(output) ==
    IF output.kind = "dict" THEN Dict(<<"loss">>, <<output.items[1]>>) ELSE output

\* training_step_end / validation_step_end / test_step_end: return output
StepEnd(output) == output

StepEndKinds == {"training_step_end", "validation_step_end", "test_step_end"}
StepEndOf(kind) ==
    CASE kind = "training_step" -> "training_step_end"
      [] kind = "validation_step" -> "validation_step_end"
      [] kind = "test_step" -> "test_step_end"
      [] OTHER -> None

\* What precision_plugin.backward gives back.
BackwardOutputs == {"closure_loss", "scaled_loss"}

\* One thing a method did, with the batch it did it to.
Did(what, batch) == [did |-> what, batch |-> batch]

\* self.batch_to_device(batch, device): "the returned batch is of the same
\* type as the input batch, just having all tensors on the correct device".
RECURSIVE BatchToDevice(_, _)
BatchToDevice(batch, device) ==
    IF batch.kind = "tensor"
    THEN [batch EXCEPT !.device = device]
    ELSE [batch EXCEPT !.items = [i \in DOMAIN batch.items |->
                                     BatchToDevice(batch.items[i], device)]]

\* The batch passed on as it came.
ToDevice_Untouched(batch) == batch

\* A dict batch handed back inside the list it was wrapped in.
ToDevice_StaysWrapped(batch) ==
    BatchToDevice(IF batch.kind = "dict" THEN Batch("list", None, <<batch>>) ELSE batch,
                  RootDevice)

\* Accelerator.to_device
ToDevice(batch) ==
    LET is_dict == batch.kind = "dict"
        wrapped == IF is_dict THEN Batch("list", None, <<batch>>) ELSE batch
        moved == BatchToDevice(wrapped, RootDevice)
    IN  IF is_dict THEN moved.items[1] ELSE moved

\* __exit__ of the plugins' step contexts: TRUE would swallow the exception.
ContextSuppresses(context) == FALSE

\* The value handed back instead of the precision plugin's output.
BackwardReturns_ClosureLoss(output, closure_loss) == closure_loss

\* return output
BackwardReturns(output, closure_loss) == output

\* A step method or backward may be called when none is under way.
StepMayStart == InRunStage /\ st_pc \in {"idle", "returned", "raised"}

\* training_step / validation_step / test_step / predict_step (args) is called.
StepCall ==
    /\ StepMayStart
    /\ \E kind \in StepKinds, batch \in Batches :
          /\ st_op' = kind
          /\ st_in' = batch
          /\ st_arg' = batch
    /\ st_pc' = "to_device"
    /\ st_log' = <<>>
    /\ st_out' = Outcome(None, None)
    /\ st_model' = <<>>
    /\ st_ret' = NoBatch
    /\ UNCHANGED <<spawnVars, reduceVars, bcastVars, saveVars, accVars>>

\* args[0] = self.to_device(args[0])
StepToDevice ==
    /\ st_pc = "to_device"
    /\ st_arg' = ToDevice(st_arg)
    /\ st_log' = Append(st_log, Did("to_device", st_arg))
    /\ st_pc' = "with"
    /\ UNCHANGED <<spawnVars, reduceVars, bcastVars, saveVars, accVars, st_op, st_in, st_out, st_model, st_ret>>

\* with self.precision_plugin.<context>(), self.training_type_plugin.<context>():
StepWithEnter ==
    /\ st_pc = "with"
    /\ st_log' = st_log \o <<Did("enter precision_plugin", NoBatch),
                             Did("enter training_type_plugin", NoBatch)>>
    /\ st_pc' = "step"
    /\ UNCHANGED <<spawnVars, reduceVars, bcastVars, saveVars, accVars, st_op, st_in, st_arg,
                   st_out, st_model, st_ret>>

\* self.training_type_plugin.<step>(*args) inside the with block.
StepBody ==
    /\ st_pc = "step"
    /\ st_log' = Append(st_log, Did(st_op, st_arg))
    /\ \E outcome \in StepOutcomes :
          /\ st_out' = Outcome(outcome, None)
          /\ IF Raises(outcome)
             THEN /\ st_model' = Append(st_model, ModelCalled(st_op, NoBatch))
                  /\ st_ret' = NoBatch
             ELSE \E output \in StepOutputs :
                     /\ st_model' = Append(st_model, ModelCalled(st_op, output))
                     /\ st_ret' = StepReturns(output)
    /\ st_pc' = "exit"
    /\ UNCHANGED <<spawnVars, reduceVars, bcastVars, saveVars, accVars, st_op, st_in, st_arg>>

\* The with block is left, by the return or by the exception: the contexts are
\* exited innermost first, and the caller gets the value or the exception.
StepWithExit ==
    /\ st_pc = "exit"
    /\ st_log' = st_log \o <<Did("exit training_type_plugin", NoBatch),
                             Did("exit precision_plugin", NoBatch)>>
    /\ LET swallowed == /\ Raises(st_out.inner)
                        /\ \/ ContextSuppresses("training_type_plugin")
                           \/ ContextSuppresses("precision_plugin")
       IN  /\ st_out' = Outcome(st_out.inner, IF swallowed THEN None ELSE st_out.inner)
           /\ st_pc' = IF Raises(st_out.inner) /\ ~swallowed THEN "raised" ELSE "returned"
           /\ st_ret' = IF Raises(st_out.inner) THEN NoBatch ELSE st_ret
    /\ UNCHANGED st_model
    /\ UNCHANGED <<spawnVars, reduceVars, bcastVars, saveVars, accVars, st_op, st_in, st_arg>>

\* Accelerator.training_step_end / validation_step_end / test_step_end (output):
\* return self.training_type_plugin.<kind>(output). The output is the one the
\* matching step just returned, or any other.
StepEndCall ==
    /\ StepMayStart
    /\ \E kind \in StepEndKinds, output \in StepOutputs \cup {st_ret} :
          LET chained == st_pc = "returned" /\ StepEndOf(st_op) = kind /\ output = st_ret
          IN  /\ output # NoBatch
              /\ st_op' = kind
              /\ st_in' = output
              /\ st_arg' = output
              /\ st_log' = <<Did(kind, output)>>
              /\ st_model' = IF chained THEN st_model ELSE <<>>
              /\ st_ret' = StepEnd(output)
    /\ st_pc' = "returned"
    /\ st_out' = Outcome(None, None)
    /\ UNCHANGED <<spawnVars, reduceVars, bcastVars, saveVars, accVars>>

\* Accelerator.backward(closure_loss, optimizer, optimizer_idx, should_accumulate)
\* is called.
BackwardCall ==
    /\ StepMayStart
    /\ st_op' = "backward"
    /\ st_in' = Batch("closure_loss", RootDevice, <<>>)
    /\ st_arg' = Batch("closure_loss", RootDevice, <<>>)
    /\ st_pc' = "pre_backward"
    /\ st_log' = <<>>
    /\ st_out' = Outcome(None, None)
    /\ st_model' = <<>>
    /\ st_ret' = NoBatch
    /\ UNCHANGED <<spawnVars, reduceVars, bcastVars, saveVars, accVars>>

\* What a hook of a plugin gives: it returns, or it raises.
HookOutcomes == {"ok", "raise RuntimeError"}

\* A handler around the delegate calls that goes on after one of them raised.
AcceleratorCatches_Delegate(call) == TRUE

\* backward and optimizer_step call their delegates outside any try: nothing
\* a delegate raises is caught.
AcceleratorCatches(call) == FALSE

\* The call `call` of a delegate gave `outcome`: the method is left by the exception.
Leaves(call, outcome) == Raises(outcome) /\ ~AcceleratorCatches(call)

\* self.training_type_plugin.pre_backward(closure_loss, ...)
BackwardPre ==
    /\ st_pc = "pre_backward"
    /\ st_log' = Append(st_log, Did("pre_backward", st_arg))
    /\ \E outcome \in HookOutcomes :
          IF Leaves("pre_backward", outcome)
          THEN st_pc' = "raised" /\ st_out' = Outcome(st_out.inner, outcome)
          ELSE st_pc' = "precision_backward" /\ UNCHANGED st_out
    /\ UNCHANGED <<spawnVars, reduceVars, bcastVars, saveVars, accVars, st_op, st_in, st_arg, st_model, st_ret>>

\* output = self.precision_plugin.backward(self.lightning_module, closure_loss, ...)
BackwardPrecision ==
    /\ st_pc = "precision_backward"
    /\ st_log' = Append(st_log, Did("precision_plugin.backward", st_arg))
    /\ \E output \in BackwardOutputs \cup {"raise RuntimeError"} :
          IF Leaves("precision_plugin.backward", output)
          THEN st_pc' = "raised" /\ st_out' = Outcome(output, output)
          ELSE st_pc' = "post_backward" /\ st_out' = Outcome(output, None)
    /\ UNCHANGED <<spawnVars, reduceVars, bcastVars, saveVars, accVars, st_op, st_in, st_arg, st_model, st_ret>>

\* self.training_type_plugin.post_backward(closure_loss, ...); return output
BackwardPost ==
    /\ st_pc = "post_backward"
    /\ st_log' = Append(st_log, Did("post_backward", st_arg))
    /\ \E outcome \in HookOutcomes :
          IF Leaves("post_backward", outcome)
          THEN st_pc' = "raised" /\ st_out' = Outcome(st_out.inner, outcome)
          ELSE /\ st_pc' = "returned"
               /\ st_out' = Outcome(st_out.inner, BackwardReturns(st_out.inner, st_in.kind))
    /\ UNCHANGED <<spawnVars, reduceVars, bcastVars, saveVars, accVars, st_op, st_in, st_arg, st_model, st_ret>>

\* The optimizer stepped whatever pre_optimizer_step returned.
MakesOptimizerStep_Always(make_optimizer_step) == TRUE

\* if make_optimizer_step:
MakesOptimizerStep(make_optimizer_step) == make_optimizer_step

\* Accelerator.optimizer_step(optimizer, opt_idx, lambda_closure) is called.
OptimizerStepCall ==
    /\ StepMayStart
    /\ st_op' = "optimizer_step"
    /\ st_in' = NoBatch
    /\ st_arg' = NoBatch
    /\ st_pc' = "pre_optimizer_step"
    /\ st_log' = <<>>
    /\ st_out' = Outcome(None, None)
    /\ st_model' = <<>>
    /\ st_ret' = NoBatch
    /\ UNCHANGED <<spawnVars, reduceVars, bcastVars, saveVars, accVars>>

\* make_optimizer_step = self.precision_plugin.pre_optimizer_step(...), and
\* run_optimizer_step (the plugin's optimizer_step) under `if make_optimizer_step`.
OptimizerStepPre ==
    /\ st_pc = "pre_optimizer_step"
    /\ \/ \E make_optimizer_step \in BOOLEAN, outcome \in HookOutcomes :
             LET steps == MakesOptimizerStep(make_optimizer_step)
                 leaves == steps /\ Leaves("training_type_plugin.optimizer_step", outcome)
             IN  /\ steps \/ outcome = "ok"
                 /\ st_log' = st_log \o <<Did("precision_plugin.pre_optimizer_step", NoBatch)>>
                               \o IF steps
                                  THEN <<Did("training_type_plugin.optimizer_step", NoBatch)>>
                                  ELSE <<>>
                 /\ st_out' = IF steps /\ Raises(outcome)
                              THEN Outcome(outcome, IF leaves THEN outcome ELSE None)
                              ELSE Outcome(IF make_optimizer_step THEN "True" ELSE "False", None)
                 /\ st_pc' = IF leaves THEN "raised" ELSE "post_optimizer_step"
       \/ /\ st_log' = st_log \o <<Did("precision_plugin.pre_optimizer_step", NoBatch)>>
          /\ IF Leaves("precision_plugin.pre_optimizer_step", "raise RuntimeError")
             THEN st_pc' = "raised" /\ st_out' = Outcome(None, "raise RuntimeError")
             ELSE st_pc' = "post_optimizer_step" /\ st_out' = Outcome("False", None)
    /\ UNCHANGED <<spawnVars, reduceVars, bcastVars, saveVars, accVars, st_op, st_in, st_arg, st_model, st_ret>>

\* self.precision_plugin.post_optimizer_step(optimizer, opt_idx), then
\* self.training_type_plugin.post_optimizer_step(optimizer, opt_idx, **kwargs)
OptimizerStepPost ==
    /\ st_pc = "post_optimizer_step"
    /\ \E first, second \in HookOutcomes :
          LET left_first == Leaves("precision_plugin.post_optimizer_step", first)
              left_second == Leaves("training_type_plugin.post_optimizer_step", second)
          IN  /\ left_first => second = "ok"
              /\ st_log' = st_log \o <<Did("precision_plugin.post_optimizer_step", NoBatch)>>
                            \o IF left_first
                               THEN <<>>
                               ELSE <<Did("training_type_plugin.post_optimizer_step", NoBatch)>>
              /\ st_out' = Outcome(st_out.inner,
                                   IF left_first THEN first ELSE IF left_second THEN second ELSE None)
              /\ st_pc' = IF left_first \/ left_second THEN "raised" ELSE "returned"
    /\ UNCHANGED <<spawnVars, reduceVars, bcastVars, saveVars, accVars, st_op, st_in, st_arg, st_model, st_ret>>

\* One run of an Accelerator: its plugin spawns acc_nprocs workers (none for a
\* plugin that runs the stage in the launching process; TPUSpawnPlugin keeps
\* the default setup_optimizers_in_pre_dispatch, False).
InitAcc ==
    /\ SpawnInRunStage({<<1, 1>>})
    /\ ReduceIdle
    /\ BcastIdle
    /\ SaveIdle
    /\ StepIdle
    /\ acc_nprocs \in 0 .. MaxWorkers
    /\ acc_flag \in IF acc_nprocs = 0 THEN BOOLEAN ELSE {FALSE}
    /\ acc_state \in TrainerStates
    /\ acc_conf \in InitOptimizersResults
    /\ acc_pc = "init"
    /\ acc_wpc = [w \in AccWorkers |-> "unspawned"]
    /\ acc_lists = [p \in AccProcs |-> EmptyLists]
    /\ so_log = <<>>
    /\ acc_amp \in BOOLEAN
    /\ acc_model = "model"
    /\ setup_log = <<>>
    /\ acc_schedulers = [set |-> FALSE, val |-> <<>>]
    /\ acc_queue = <<>>
    /\ acc_results = None
    /\ results_log = <<>>
    /\ acc_ran = None

NextAcc ==
    \/ AccSetup
    \/ AccPreDispatch
    \/ AccStartTraining
    \/ \E w \in AccWorkers : AccNewProcess(w)
    \/ AccTrainingEnds
    \/ AccPostDispatch
    \/ StepCall
    \/ StepToDevice
    \/ StepWithEnter
    \/ StepBody
    \/ StepWithExit
    \/ StepEndCall
    \/ BackwardCall
    \/ BackwardPre
    \/ BackwardPrecision
    \/ BackwardPost
    \/ OptimizerStepCall
    \/ OptimizerStepPre
    \/ OptimizerStepPost

SpecAcc == InitAcc /\ [][NextAcc]_vars

\* The setup_optimizers calls made on the accelerator process p holds: its
\* own, and for a worker those of the launching process before the spawn.
CallsOn(p) ==
    SelectSeq(so_log, LAMBDA c : \/ c.proc = p
                                 \/ p # Main /\ acc_wpc[p] # "unspawned" /\ c.proc = Main)

\* C16: in a trainer state that is neither FITTING nor TUNING no
\* setup_optimizers call reaches init_optimizers, and the three lists of every
\* accelerator stay as __init__ left them, empty.
C16_SetupOptimizersNoOp ==
    acc_state \notin {"FITTING", "TUNING"} =>
        /\ \A i \in 1 .. Len(so_log) : ~so_log[i].init
        /\ \A p \in DOMAIN acc_lists : acc_lists[p] = EmptyLists
C16_Witness ==
    /\ acc_state = "TESTING"
    /\ Len(so_log) >= 2
    /\ acc_pc = "done"

\* C17: in FITTING or TUNING an accelerator on which setup_optimizers ran holds
\* exactly the three lists init_optimizers returned, after a second call as
\* after the first: the stored lists are replaced, never appended to.
C17_SetupOptimizersReplaces ==
    acc_state \in {"FITTING", "TUNING"} =>
        \A p \in DOMAIN acc_lists :
            /\ Len(CallsOn(p)) >= 1 => acc_lists[p] = acc_conf
            /\ \A i \in 1 .. Len(so_log) : so_log[i].init
C17_Witness ==
    /\ acc_state = "FITTING"
    /\ \E p \in DOMAIN acc_lists : Len(CallsOn(p)) = 2 /\ acc_lists[p] = acc_conf
    /\ Len(acc_conf.optimizers) = 2


\* The phases from which setup_optimizers was called, in order.
Phases == [i \in 1 .. Len(so_log) |-> so_log[i].phase]
\* The phase in which the launching process is to run setup_optimizers.
PhaseOfFlag == IF acc_flag THEN "pre_dispatch" ELSE "setup"

\* C18 as stated: once start_training was called, the run has made exactly one
\* setup_optimizers call, from setup when the plugin's flag is false and from
\* pre_dispatch when it is true, and none from anywhere else.
C18_SetupOptimizersOncePerRun ==
    acc_pc \in {"training", "done"} => Phases = <<PhaseOfFlag>>

\* C18 amended: setup and pre_dispatch together call setup_optimizers exactly
\* once in the launching process, from setup when the plugin's flag is false
\* and from pre_dispatch when it is true; every worker TPUSpawnPlugin spawns
\* calls it once more in new_process, before its run stage, so that a finished
\* run of N workers has made 1 + N calls.
C18_SetupOptimizersOncePerProcess ==
    LET by(p) == SelectSeq(so_log, LAMBDA c : c.proc = p)
    IN  /\ acc_pc \notin {"init", "setup"} =>
              Phases # <<>> /\ by(Main) = <<so_log[1]>> /\ so_log[1].phase = PhaseOfFlag
        /\ acc_pc = "setup" => Phases = IF acc_flag THEN <<>> ELSE <<"setup">>
        /\ acc_pc = "init" => Phases = <<>>
        /\ \A w \in AccWorkers :
              /\ Len(by(w)) = IF acc_wpc[w] \in {"run_stage", "exited"} THEN 1 ELSE 0
              /\ \A i \in 1 .. Len(by(w)) : by(w)[i].phase = "new_process"
        /\ acc_pc = "done" => Len(so_log) = 1 + acc_nprocs
C18_Witness ==
    /\ acc_pc = "done"
    /\ acc_nprocs = 2
    /\ Len(so_log) = 3


\* What the method under way did, in order, without the batches.
DidNames == [i \in 1 .. Len(st_log) |-> st_log[i].did]
IsPrefix(a, b) == Len(a) <= Len(b) /\ a = SubSeq(b, 1, Len(a))
StepEnded == st_pc \in {"returned", "raised"}
\* Every tensor of the batch is on the root device.
RECURSIVE OnRootDevice(_)
OnRootDevice(batch) ==
    IF batch.kind = "tensor"
    THEN batch.device = RootDevice
    ELSE \A i \in DOMAIN batch.items : OnRootDevice(batch.items[i])

\* C19: a step method transfers its batch to the root device, enters the
\* precision plugin's context and the training type plugin's context, calls
\* the plugin's step with the transferred batch, and exits both contexts
\* exactly once, also when the step raised; the exception then reaches the
\* caller.
C19_StepInsideBothContexts ==
    st_op \in StepKinds =>
        /\ IsPrefix(DidNames, <<"to_device", "enter precision_plugin",
                                "enter training_type_plugin", st_op,
                                "exit training_type_plugin", "exit precision_plugin">>)
        /\ \A i \in 1 .. Len(st_log) :
              st_log[i].did = st_op =>
                 /\ OnRootDevice(st_log[i].batch)
                 /\ st_log[i].batch.kind = st_in.kind
                 /\ Len(st_log[i].batch.items) = Len(st_in.items)
        /\ StepEnded =>
              /\ Len(st_log) = 6
              /\ st_pc = "raised" <=> Raises(st_out.inner)
              /\ st_out.caller = st_out.inner
C19_Witness ==
    /\ st_op \in StepKinds
    /\ st_pc = "raised"
    /\ st_in.kind = "dict"

\* C20: backward calls pre_backward, then the precision plugin's backward,
\* then post_backward, each once, and a call that returns hands back what the
\* precision plugin's backward returned.
C20_BackwardOrderAndResult ==
    st_op = "backward" =>
        /\ IsPrefix(DidNames, <<"pre_backward", "precision_plugin.backward", "post_backward">>)
        /\ st_pc = "returned" =>
              /\ Len(st_log) = 3
              /\ st_out.caller = st_out.inner
              /\ st_out.inner \in BackwardOutputs
C20_Witness ==
    /\ st_op = "backward"
    /\ st_pc = "returned"
    /\ st_out.inner = "scaled_loss"


\* C21: an optimizer_step that returns has called the plugin's optimizer_step
\* exactly when the precision plugin's pre_optimizer_step returned true, once,
\* and in both cases ended with the precision plugin's post_optimizer_step followed by the
\* plugin's post_optimizer_step, each called once.
C21_OptimizerStepDelegatesIffPre ==
    (st_op = "optimizer_step" /\ st_pc = "returned") =>
        DidNames = <<"precision_plugin.pre_optimizer_step">>
                   \o (IF st_out.inner = "True"
                       THEN <<"training_type_plugin.optimizer_step">>
                       ELSE <<>>)
                   \o <<"precision_plugin.post_optimizer_step",
                        "training_type_plugin.post_optimizer_step">>
C21_Witness ==
    /\ st_op = "optimizer_step"
    /\ st_pc = "returned"
    /\ st_out.inner = "False"
    /\ Len(st_log) = 3


\* The nesting of a batch: its kinds and keys, without the devices.
RECURSIVE Nesting(_)
Nesting(batch) ==
    [kind |-> batch.kind, keys |-> batch.keys,
     items |-> [i \in DOMAIN batch.items |-> Nesting(batch.items[i])]]

\* C22: to_device keeps the shape of the batch. A dict comes back as a dict
\* with the same keys and its values on the root device, not as the list it
\* was wrapped in for the transfer; a tensor, list or tuple comes back with
\* its own nesting, neither wrapped nor unwrapped.
C22_ToDevicePreservesShape ==
    (st_op \in StepKinds /\ st_pc # "to_device") =>
        /\ Nesting(st_arg) = Nesting(st_in)
        /\ OnRootDevice(st_arg)
        /\ st_in.kind = "dict" =>
              /\ st_arg.kind = "dict"
              /\ st_arg.keys = st_in.keys
              /\ Len(st_arg.items) = Len(st_in.keys)
C22_Witness ==
    /\ st_op \in StepKinds
    /\ st_pc = "with"
    /\ st_in.kind = "dict"
    /\ st_in.keys = <<"x", "y">>
    /\ st_arg # st_in


C24_ResultsAssignedOnceAfterRun ==
    /\ Len(results_log) <= 1
    /\ acc_pc \in {"init", "setup", "pre_dispatch", "training"} =>
          acc_results = None /\ results_log = <<>>
    /\ (acc_nprocs = 0 /\ acc_pc \in {"done", "post_dispatch"}) =>
          acc_results = acc_ran /\ acc_ran \in Results /\ results_log = <<"start_training">>
    /\ (acc_nprocs > 0 /\ acc_pc = "done") =>
          acc_results = None /\ results_log = <<>>
    /\ (acc_nprocs > 0 /\ acc_pc = "post_dispatch") =>
          acc_results = acc_ran /\ acc_ran \in Results /\ results_log = <<"post_dispatch">>
C24_Witness ==
    /\ acc_nprocs > 0
    /\ acc_pc = "post_dispatch"
    /\ acc_results = "r2"


\* C25: when post_dispatch is over, the parent's checkpoint callback, if there
\* is one, has as best_model_path the best path the worker with global_rank 0
\* put on the queue; the parent has loaded the "last" checkpoint exactly when
\* the worker put a last path and the state is FITTING; and the worker put a
\* last path exactly when the state is FITTING and the best path is non-empty.
C25_BestPathRestoredLastReloaded ==
    \A n \in Nodes :
        ppc[n] = "done" =>
            LET best == put_log[n][1]
                last == put_log[n][2]
            IN  /\ global_rank[best[1]] = 0 /\ global_rank[last[1]] = 0
                /\ ckpt_cb # None => parent_best[n] = best[2]
                /\ best[2] = ckpt_cb
                /\ last[2] \in parent_loaded[n]
                      <=> (last[2] \notin {None, ""} /\ trainer_state = "FITTING")
                /\ parent_loaded[n] \ {RescueName} \subseteq {last[2]}
                /\ last[2] # None
                      <=> (trainer_state = "FITTING" /\ ckpt_cb \notin {None, ""})
C25_Witness ==
    \E n \in Nodes :
        /\ ppc[n] = "done"
        /\ trainer_state = "FITTING"
        /\ parent_best[n] = "best.ckpt"
        /\ "best.tmp_end.ckpt" \in parent_loaded[n]


\* Worker w called save for the rescue checkpoint.
SavedRescue(w) == <<w, RescueName>> \in save_calls
PastRescue(w) == Done(w, "save_end_of_training_weights")

\* C26 as stated: on a platform with abrupt teardown every worker of non-zero
\* rank writes the rescue checkpoint once its run_stage is over, before its
\* result transfer; on any other platform no worker writes it.
C26_NonZeroRanksWriteRescue ==
    \A w \in Workers :
        /\ (colab /\ PastRescue(w) /\ global_rank[w] # 0) => SavedRescue(w)
        /\ ~colab => ~SavedRescue(w)

\* C26 amended: on a platform with abrupt teardown the workers that are global
\* zero (global_rank 0), and only they, write the rescue checkpoint, after
\* their run_stage returned and before their result transfer; on any other
\* platform no worker writes it.
C26_GlobalZeroWritesRescue ==
    \A w \in Workers :
        /\ SavedRescue(w) =>
              /\ colab
              /\ global_rank[w] = 0
              /\ Done(w, "run_stage") /\ results[w] \in Results
        /\ (colab /\ global_rank[w] = 0 /\ (PastRescue(w) \/ Done(w, "transfer"))) =>
              SavedRescue(w)
        /\ (SavedRescue(w) /\ PastRescue(w) /\ ppc[NodeOf(w)] = "spawning") =>
              <<NodeOf(w), RescueName>> \in files
        /\ (~SavedRescue(w) /\ ~PastRescue(w)) => PutsBy(w) = <<>>
C26_Witness ==
    /\ colab
    /\ \E w, v \in Workers :
          /\ global_rank[w] = 0 /\ SavedRescue(w) /\ PastRescue(w)
          /\ global_rank[v] > 0 /\ ~SavedRescue(v) /\ PastRescue(v)


\* C27: on a platform with abrupt teardown, a finished post_dispatch has
\* reloaded the weights from the rescue checkpoint and deleted the file,
\* whatever the run state: no rescue checkpoint a worker wrote is left.
C27_RescueReloadedAndDeleted ==
    \A n \in Nodes :
        (colab /\ ppc[n] = "done") =>
            /\ RescueName \in parent_loaded[n]
            /\ <<n, RescueName>> \notin files


\* C28: a worker that died (raised or was killed) before arriving at a barrier
\* never arrives, and from then on no worker that arrived there leaves it: the
\* rendezvous has no timeout and no detection. While a worker is dead before
\* "pre-run-stage" every worker is held before its transfer and the channels
\* stay empty.
C28_ArrivedWorkersBlockForever ==
    [][\A name \in BarrierNames : \A w \in Workers :
          (Dead(w) /\ w \notin arrived[name]) =>
              /\ wpc'[w] = wpc[w]
              /\ w \notin arrived'[name]
              /\ \A v \in arrived[name] :
                    wpc[v] = BarrierPc(name) => wpc'[v] \in {BarrierPc(name), "killed"}
              /\ name = "pre-run-stage" =>
                    /\ \A v \in Workers : ~Done(v, "transfer") /\ wpc'[v] # "transfer"
                    /\ \A n \in Nodes : mp_queue[n] = <<>> /\ mp_queue'[n] = <<>>]_vars
C28_Witness ==
    \E w, v \in Workers :
        /\ Dead(w) /\ w \notin arrived["end-process"]
        /\ v \in arrived["end-process"] /\ wpc[v] = "barrier:end-process"
        /\ \A u \in Workers \ {w} : u \in arrived["end-process"]
\* The same at the first barrier: a worker killed before "pre-run-stage".
BlockedAtPreRunStage ==
    \E w, v \in Workers :
        /\ Dead(w) /\ w \notin arrived["pre-run-stage"]
        /\ v \in arrived["pre-run-stage"] /\ wpc[v] = "barrier:pre-run-stage"


\* run_stage returned in every worker.
AllRan == \A w \in Workers : Done(w, "run_stage")
\* Every worker left new_process and every parent finished post_dispatch.
AllTerminated ==
    /\ \A w \in Workers : wpc[w] = "exited"
    /\ \A n \in Nodes : ppc[n] = "done"
\* A parent about to read the channel finds a value on it.
ParentNeverBlocks ==
    \A n \in Nodes : ppc[n] \in {"get_best", "get_last", "get_results"} => mp_queue[n] # <<>>

C30_StepOutputReachesCaller ==
    /\ st_op \in StepKinds =>
          /\ Len(st_model) = (IF st_pc \in {"exit", "returned", "raised"} THEN 1 ELSE 0)
          /\ \A i \in 1 .. Len(st_model) : st_model[i].call = st_op
          /\ st_pc = "returned" => st_ret = st_model[1].ret /\ st_ret \in StepOutputs
    /\ st_op \in StepEndKinds =>
          /\ st_pc = "returned"
          /\ st_ret = st_in
          /\ st_model # <<>> =>
                /\ Len(st_model) = 1
                /\ StepEndOf(st_model[1].call) = st_op
                /\ st_ret = st_model[1].ret
C30_Witness ==
    /\ st_op = "training_step_end"
    /\ st_model = <<ModelCalled("training_step", DictReturn)>>
    /\ st_ret.keys = <<"loss", "log", "progress_bar", "train_step_test">>
    /\ st_ret.items[4] = Value("549")
    /\ st_ret.items[3].items[1] = Value("17.0")


\* The values put on node n's queue in the run under way, in order.
PutValues(n) == [i \in 1 .. Len(put_log[n]) |-> put_log[n][i][2]]

\* C31: when every run is followed by its post_dispatch before the next one
\* starts, a node's queue is empty when its workers are spawned, and what the
\* parent has read in a run plus what is left on the queue is exactly what the
\* workers of that run put, in order: no value of an earlier run is read.
C31_QueueHoldsOnlyThisRun ==
    \A n \in Nodes :
        /\ (ppc[n] \in {"init", "setup"} /\ queue_run[n] > 0) => mp_queue[n] = <<>>
        /\ (ppc[n] = "spawning" /\ \A w \in WorkersOf(n) : wpc[w] = "set_world_ranks") =>
              mp_queue[n] = <<>>
        /\ got[n] \o mp_queue[n] = PutValues(n)
        /\ ppc[n] = "done" => Len(got[n]) = 3 /\ mp_queue[n] = <<>>
C31_Witness ==
    /\ run = 2
    /\ num_processes > 1
    /\ \E n \in Nodes :
          /\ queue_run[n] = 1
          /\ ppc[n] = "done"
          /\ got[n] = PutValues(n)
          /\ parent_results[n] \in Results


\* The lr_schedulers a process holds given the setup_optimizers calls made on
\* it (for a spawned worker also those made on the launching process, whose
\* accelerator it copies): those init_optimizers returned once a call got that
\* far, else none.
ExpectedLrSchedulers(p) ==
    LET on == IF p # Main /\ acc_wpc[p] # "unspawned" THEN {p, Main} ELSE {p}
    IN  IF \E i \in 1 .. Len(so_log) : so_log[i].proc \in on /\ so_log[i].init
        THEN acc_conf.lr_schedulers
        ELSE <<>>

\* The lr_schedulers the accelerator held when setup called connect.
SetupLrSchedulers ==
    IF ~acc_flag /\ acc_state \in {"FITTING", "TUNING"} THEN acc_conf.lr_schedulers ELSE <<>>

\* C32: lr_schedulers is changed by setup_optimizers alone: in every process
\* it is the list init_optimizers returned, or the initial empty list when no
\* call reached init_optimizers; setup_precision_plugin puts the schedulers
\* connect handed back into the separate attribute schedulers.
C32_LrSchedulersOnlyBySetupOptimizers ==
    /\ \A p \in DOMAIN acc_lists : acc_lists[p].lr_schedulers = ExpectedLrSchedulers(p)
    /\ acc_schedulers.set <=> acc_pc # "init"
    /\ acc_schedulers.set =>
          acc_schedulers.val =
             [i \in 1 .. Len(SetupLrSchedulers) |-> IF acc_amp
                                                    THEN AmpScheduler(SetupLrSchedulers[i])
                                                    ELSE SetupLrSchedulers[i]]
C32_Witness ==
    /\ acc_pc = "setup"
    /\ acc_lists[Main].lr_schedulers = <<"step_lr">>
    /\ acc_schedulers.val = <<"amp(step_lr)">>


\* The calls optimizer_step makes when none raises and the optimizer is stepped.
OptimizerStepCalls ==
    <<"precision_plugin.pre_optimizer_step", "training_type_plugin.optimizer_step",
      "precision_plugin.post_optimizer_step", "training_type_plugin.post_optimizer_step">>
Last(seq) == seq[Len(seq)]

\* C33: backward and optimizer_step leave by an exception only when a delegate
\* raised, the caller gets that exception, and nothing is called after the
\* call that raised: no post_optimizer_step hook after a raising optimizer_step
\* of the plugin, no post_backward after a raising backward of the precision
\* plugin.
C33_DelegateFailurePropagates ==
    st_op \in {"backward", "optimizer_step"} =>
        /\ st_pc = "raised" =>
              /\ st_out.caller = "raise RuntimeError"
              /\ st_log # <<>>
        /\ Raises(st_out.inner) =>
              /\ st_pc = "raised"
              /\ st_out.caller = st_out.inner
              /\ Last(DidNames) = (IF st_op = "backward"
                                   THEN "precision_plugin.backward"
                                   ELSE "training_type_plugin.optimizer_step")
              /\ \A i \in 1 .. Len(st_log) :
                    st_log[i].did \notin {"post_backward",
                                          "precision_plugin.post_optimizer_step",
                                          "training_type_plugin.post_optimizer_step"}
        /\ st_op = "optimizer_step" =>
              \/ IsPrefix(DidNames, OptimizerStepCalls)
              \/ IsPrefix(DidNames, <<OptimizerStepCalls[1], OptimizerStepCalls[3],
                                      OptimizerStepCalls[4]>>)
C33_Witness ==
    /\ st_op = "optimizer_step"
    /\ st_pc = "raised"
    /\ Raises(st_out.inner)
    /\ DidNames = <<"precision_plugin.pre_optimizer_step", "training_type_plugin.optimizer_step">>

====
